---- MODULE Spec2Model ----
(***************************************************************************)
(* The trading risk gate (crates/gate) as a state machine.                 *)
(*                                                                         *)
(* Units.  The source computes in f64.  The model computes in integers:    *)
(*   prices          whole dollars                                         *)
(*   sizes           whole units                                           *)
(*   money           thousandths of a dollar (so that the 0.1% fee of a    *)
(*                   whole-dollar notional is exact)                       *)
(*   percentages     hundredths (0.01 is 1, 1.0 is 100)                    *)
(*   other ratios    thousandths                                           *)
(* An Option<T> is a sequence: << >> is None and <<v>> is Some(v).         *)
(***************************************************************************)
EXTENDS Integers, Sequences, FiniteSets, TLC

VARIABLES
    state,          \* GateState: the ledger (state.rs)
    market_cache,   \* the shared MarketState snapshot (main.rs:209)
    db,             \* the sqlite store: [positions, fills] (db.rs)
    audit,          \* the audit log file, write-only: [count, last] of its lines (audit.rs)
    proposals,      \* files written under proposals/applied and proposals/pending
    adapter_calls,  \* the calls made to ExchangeClient::submit_order: [count, last]
    deployment,     \* what is fixed at startup: safety config, rules, dry_run, seed,
                    \* and which side-channel stores accept writes
    now,            \* the wall clock: [date, hour]
    next_id,        \* source of fresh order ids (Uuid::new_v4)
    request,        \* the request processed last
    risk_ctx,       \* the RiskContext computed by the last SubmitOrder
    execution,      \* what the last SubmitOrder did after its verdict
    response,       \* the response returned last
    nreq,           \* how many requests have been processed
    main_pc,        \* where main is in its accept loop (main.rs 212-225)
    conn,           \* per client connection: phase, the line being handled, the steps
                    \* handle_client still has to take for it, lines read and written
    locks           \* who holds the ledger mutex and the market-snapshot mutex

vars == <<state, market_cache, db, audit, proposals, adapter_calls, deployment,
          now, next_id, request, risk_ctx, execution, response, nreq,
          main_pc, conn, locks>>

-----------------------------------------------------------------------------
(* Bounds of the model *)

MaxRequests == 3

-----------------------------------------------------------------------------
(* Arithmetic helpers standing for f64 operations *)

Abs(x) == IF x < 0 THEN -x ELSE x

Min(a, b) == IF a <= b THEN a ELSE b

Max(a, b) == IF a >= b THEN a ELSE b

\* price (dollars) times size, in money units
Notional(price, size) == price * size * 1000

RECURSIVE SumSeq(_)
SumSeq(s) == IF s = << >> THEN 0 ELSE Head(s) + SumSeq(Tail(s))

RECURSIVE SetSum(_, _)
SetSum(f, S) ==
    IF S = {} THEN 0
    ELSE LET x == CHOOSE y \in S : TRUE IN f[x] + SetSum(f, S \ {x})

\* n/d in thousandths, for a d that is a whole number of dollars
Ratio1000(n, d) == n \div (d \div 1000)

\* pct (hundredths) of an amount that is a whole number of dollars
PctOf(pct, amount) == pct * (amount \div 100)

(* HashMap<String, V> as a function from ids *)
EmptyMap == [i \in {} |-> 0]

MapInsert(m, k, v) == [i \in DOMAIN m \cup {k} |-> IF i = k THEN v ELSE m[i]]

MapRemove(m, k) == [i \in DOMAIN m \ {k} |-> m[i]]

-----------------------------------------------------------------------------
(* trading_common *)

Sides == {"Buy", "Sell"}

opposite(side) == IF side = "Buy" THEN "Sell" ELSE "Buy"

CheckResult(name, passed, value, limit, source) ==
    [check_name |-> name, passed |-> passed, value |-> value,
     limit |-> limit, source |-> source]

-----------------------------------------------------------------------------
(* state.rs *)

DefaultSeed == 10000 * 1000

GateStateDefault ==
    [account_value |-> DefaultSeed,
     cash          |-> DefaultSeed,
     equity_peak   |-> DefaultSeed,
     manual_halt   |-> FALSE,
     orders        |-> EmptyMap,
     positions     |-> EmptyMap,
     fills         |-> << >>,
     can_trade     |-> TRUE]

\* a ledger that reports no drawdown
drawdown_none(s) == <<0, s.equity_peak>>

\* drawdown as the pair <<numerator, denominator>>: the code's quotient
\* (equity_peak - account_value) / equity_peak, or 0 when the peak is not positive
drawdown(s) ==
    IF s.equity_peak > 0
    THEN <<s.equity_peak - s.account_value, s.equity_peak>>
    ELSE <<0, 1>>

\* portfolio_state with the open positions left out of the exposure
portfolio_state_no_exposure(s, clock) ==
    LET today(f) == f.filled_at = clock.date
        contrib  == [k \in DOMAIN s.fills |->
                        IF today(s.fills[k]) /\ ~s.fills[k].is_entry
                        THEN s.fills[k].size * s.fills[k].price
                        ELSE 0]
        daily    == SumSeq(contrib)
    IN  [account_value       |-> s.account_value,
         available_cash      |-> s.cash,
         total_exposure      |-> 0,
         open_position_count |-> Cardinality(DOMAIN s.positions),
         daily_pnl           |-> daily,
         weekly_pnl          |-> daily,
         drawdown_from_peak  |-> drawdown(s)]

portfolio_state(s, clock) ==
    LET ids      == DOMAIN s.positions
        exposure == SetSum([i \in ids |->
                        Notional(s.positions[i].entry_price, s.positions[i].size)], ids)
        today(f) == f.filled_at = clock.date
        contrib  == [k \in DOMAIN s.fills |->
                        IF today(s.fills[k]) /\ ~s.fills[k].is_entry
                        THEN s.fills[k].size * s.fills[k].price   \* size*price/1000 dollars
                        ELSE 0]
        daily    == SumSeq(contrib)
    IN  [account_value       |-> s.account_value,
         available_cash      |-> s.cash,
         total_exposure      |-> exposure,
         open_position_count |-> Cardinality(ids),
         daily_pnl           |-> daily,
         weekly_pnl          |-> daily,
         drawdown_from_peak  |-> drawdown(s)]

\* add_fill with the peak assigned without the comparison
add_fill_peak_follows(s, fill) ==
    LET cash1 == IF fill.is_entry
                 THEN s.cash - (Notional(fill.price, fill.size) + fill.fee)
                 ELSE s.cash + (Notional(fill.price, fill.size) - fill.fee)
    IN  [s EXCEPT !.cash = cash1,
                  !.fills = Append(s.fills, fill),
                  !.equity_peak = s.account_value]

\* add_fill without the peak update
add_fill_peak_kept(s, fill) ==
    LET cash1 == IF fill.is_entry
                 THEN s.cash - (Notional(fill.price, fill.size) + fill.fee)
                 ELSE s.cash + (Notional(fill.price, fill.size) - fill.fee)
    IN  [s EXCEPT !.cash = cash1,
                  !.fills = Append(s.fills, fill)]

add_fill(s, fill) ==
    LET cash1 == IF fill.is_entry
                 THEN s.cash - (Notional(fill.price, fill.size) + fill.fee)
                 ELSE s.cash + (Notional(fill.price, fill.size) - fill.fee)
        peak1 == IF s.account_value > s.equity_peak
                 THEN s.account_value ELSE s.equity_peak
    IN  [s EXCEPT !.cash = cash1,
                  !.fills = Append(s.fills, fill),
                  !.equity_peak = peak1]

-----------------------------------------------------------------------------
(* risk.rs *)

simple(name, passed, value, limit) ==
    CheckResult(name, passed, value, limit, "safety.yaml")

\* the clock's weekday, days from Monday; date 0 is a Monday
weekday(clock) == clock.date % 7

window_active(window, clock) ==
    LET day_ok == \/ window.day_of_week = << >>
                  \/ window.day_of_week[1] = weekday(clock)
        start  == IF window.hour_start_utc = << >> THEN 0 ELSE window.hour_start_utc[1]
        end    == IF window.hour_end_utc = << >> THEN 23 ELSE window.hour_end_utc[1]
    IN  day_ok /\ clock.hour >= start /\ clock.hour <= end

\* restricted_window_active asking for every window instead of any
restricted_window_active_all(config, clock) ==
    \A k \in DOMAIN config.restricted_windows :
        window_active(config.restricted_windows[k], clock)

restricted_window_active(config, clock) ==
    \E k \in DOMAIN config.restricted_windows :
        window_active(config.restricted_windows[k], clock)

stop_order_valid(req) ==
    IF req.side = "Buy"
    THEN req.planned_stop < req.planned_entry
    ELSE req.planned_stop > req.planned_entry

LiquidityFloor == 50

\* validate_request returning at the first limit it computes
validate_request_first_only(req, config, portfolio, market_price, clock) ==
    LET hl          == config.hard_limits
        entry_price == IF req.planned_entry > 0 THEN req.planned_entry ELSE market_price
        risk        == Abs(entry_price - req.planned_stop) * req.size * 1000
        max_risk    == PctOf(hl.max_single_trade_risk_pct, hl.max_total_capital)
    IN  << simple("max_single_trade_risk", risk <= max_risk, risk, max_risk) >>

\* validate_request with a liquidity check that lets every size through
validate_request_no_floor(req, config, portfolio, market_price, clock) ==
    LET hl          == config.hard_limits
        entry_price == IF req.planned_entry > 0 THEN req.planned_entry ELSE market_price
        risk        == Abs(entry_price - req.planned_stop) * req.size * 1000
        max_risk    == PctOf(hl.max_single_trade_risk_pct, hl.max_total_capital)
        single_pos  == Notional(entry_price, req.size)
        single_pos_limit     == PctOf(hl.max_single_position_pct, hl.max_total_capital)
        total_exposure       == portfolio.total_exposure + single_pos
        total_exposure_limit == PctOf(hl.max_total_exposure_pct, hl.max_total_capital)
        dd          == portfolio.drawdown_from_peak
        drawdown_ok == dd[1] <= PctOf(hl.max_drawdown_from_peak_pct, dd[2])
        daily_ok    == IF config.kill_switches.daily_loss_halt
                       THEN portfolio.daily_pnl >= -hl.max_daily_loss ELSE TRUE
        weekly_ok   == IF config.kill_switches.weekly_loss_halt
                       THEN portfolio.weekly_pnl >= -hl.max_weekly_loss ELSE TRUE
        restricted  == restricted_window_active(config, clock)
        stop_ok     == stop_order_valid(req)
    IN  << simple("max_single_trade_risk", risk <= max_risk, risk, max_risk),
           simple("max_single_position", single_pos <= single_pos_limit,
                  single_pos, single_pos_limit),
           simple("max_total_exposure", total_exposure <= total_exposure_limit,
                  total_exposure, total_exposure_limit),
           simple("liquidity_check", TRUE, single_pos, LiquidityFloor * 1000),
           simple("spread_check", TRUE, 1, 10),
           simple("drawdown_halt", drawdown_ok, Ratio1000(dd[1], dd[2]),
                  hl.max_drawdown_from_peak_pct * 10),
           simple("daily_loss_halt", daily_ok, portfolio.daily_pnl, -hl.max_daily_loss),
           simple("weekly_loss_halt", weekly_ok, portfolio.weekly_pnl, -hl.max_weekly_loss),
           simple("time_window_restriction", ~restricted,
                  IF restricted THEN 1000 ELSE 0, 1000),
           simple("stop_order_valid", stop_ok, IF stop_ok THEN 1000 ELSE 0, 1000),
           CheckResult("event_overlap_acknowledged", TRUE, 1000, 1000, "safety.yaml") >>

validate_request(req, config, portfolio, market_price, clock) ==
    LET hl          == config.hard_limits
        entry_price == IF req.planned_entry > 0 THEN req.planned_entry ELSE market_price
        risk        == Abs(entry_price - req.planned_stop) * req.size * 1000
        max_risk    == PctOf(hl.max_single_trade_risk_pct, hl.max_total_capital)
        single_pos  == Notional(entry_price, req.size)
        single_pos_limit     == PctOf(hl.max_single_position_pct, hl.max_total_capital)
        total_exposure       == portfolio.total_exposure + single_pos
        total_exposure_limit == PctOf(hl.max_total_exposure_pct, hl.max_total_capital)
        dd          == portfolio.drawdown_from_peak
        \* dd <= pct/100, for a peak that is a whole number of dollars
        drawdown_ok == dd[1] <= PctOf(hl.max_drawdown_from_peak_pct, dd[2])
        daily_ok    == IF config.kill_switches.daily_loss_halt
                       THEN portfolio.daily_pnl >= -hl.max_daily_loss ELSE TRUE
        weekly_ok   == IF config.kill_switches.weekly_loss_halt
                       THEN portfolio.weekly_pnl >= -hl.max_weekly_loss ELSE TRUE
        restricted  == restricted_window_active(config, clock)
        stop_ok     == stop_order_valid(req)
    IN  << simple("max_single_trade_risk", risk <= max_risk, risk, max_risk),
           simple("max_single_position", single_pos <= single_pos_limit,
                  single_pos, single_pos_limit),
           simple("max_total_exposure", total_exposure <= total_exposure_limit,
                  total_exposure, total_exposure_limit),
           simple("liquidity_check", single_pos > LiquidityFloor * 1000,
                  single_pos, LiquidityFloor * 1000),
           simple("spread_check", TRUE, 1, 10),
           simple("drawdown_halt", drawdown_ok, Ratio1000(dd[1], dd[2]),
                  hl.max_drawdown_from_peak_pct * 10),
           simple("daily_loss_halt", daily_ok, portfolio.daily_pnl, -hl.max_daily_loss),
           simple("weekly_loss_halt", weekly_ok, portfolio.weekly_pnl, -hl.max_weekly_loss),
           simple("time_window_restriction", ~restricted,
                  IF restricted THEN 1000 ELSE 0, 1000),
           simple("stop_order_valid", stop_ok, IF stop_ok THEN 1000 ELSE 0, 1000),
           CheckResult("event_overlap_acknowledged", TRUE, 1000, 1000, "safety.yaml") >>

-----------------------------------------------------------------------------
(* rule_engine.rs *)

Operators == {"eq", "neq", "gt", "gte", "lt", "lte"}

\* the 1e-9 tolerance of eq/neq is below the resolution of every modelled unit
compare(lhs, op, rhs) ==
    CASE op = "eq"  -> lhs = rhs
      [] op = "neq" -> lhs # rhs
      [] op = "gt"  -> lhs > rhs
      [] op = "gte" -> lhs >= rhs
      [] op = "lt"  -> lhs < rhs
      [] op = "lte" -> lhs <= rhs

\* Option<f64>: the observation a field name resolves to, in the field's unit
resolve_field(field, req, market, open_positions, clock) ==
    LET submit == req.request_type = "SubmitOrder" IN
    CASE field = "market.price"                  -> <<market.price>>
      [] field = "market.funding_rate_zscore"    -> <<market.funding_rate_zscore>>
      [] field = "market.volume_ratio"           -> <<market.volume_ratio>>
      [] field = "market.volatility"             -> <<market.realized_volatility>>
      [] field = "market.spread_pct"             -> <<market.spread_pct>>
      [] field = "time.day_of_week"              -> <<weekday(clock)>>
      [] field = "time.hour_utc"                 -> <<clock.hour>>
      [] field = "portfolio.total_exposure_pct"  -> <<open_positions>>   \* hundredths
      [] field = "portfolio.open_position_count" -> <<open_positions>>
      [] field = "order.size"     -> IF submit THEN <<req.size>> ELSE << >>
      [] field = "order.notional" ->
            IF submit THEN <<Notional(req.planned_entry, req.size)>> ELSE << >>
      [] field = "order.side"     ->
            IF submit THEN <<IF req.side = "Buy" THEN 1 ELSE -1>> ELSE << >>
      [] field = "order.risk_pct" ->
            IF submit
            THEN <<Abs(req.planned_entry - req.planned_stop) * req.size * 1000>>
            ELSE << >>
      [] OTHER -> << >>

\* a condition whose field does not resolve taken as met
condition_holds_unresolved_met(c, req, market, open_positions, clock) ==
    LET lhs == resolve_field(c.field, req, market, open_positions, clock)
    IN  IF lhs = << >> THEN TRUE ELSE compare(lhs[1], c.operator, c.value)

condition_holds(c, req, market, open_positions, clock) ==
    LET lhs == resolve_field(c.field, req, market, open_positions, clock)
    IN  IF lhs = << >> THEN FALSE ELSE compare(lhs[1], c.operator, c.value)

rule_matches(rule, req, market, open_positions, clock) ==
    /\ \/ req.request_type # "SubmitOrder"
       \/ rule.strategy = << >>
       \/ rule.strategy[1] = req.strategy
    /\ \A k \in DOMAIN rule.conditions :
           condition_holds(rule.conditions[k], req, market, open_positions, clock)

\* RuleEngine::evaluate: the hits, in the order of the loaded rules
RECURSIVE rule_engine_evaluate(_, _, _, _, _)
rule_engine_evaluate(rules, req, market, open_positions, clock) ==
    IF rules = << >> THEN << >>
    ELSE LET rule == Head(rules)
             rest == rule_engine_evaluate(Tail(rules), req, market, open_positions, clock)
         IN  IF rule_matches(rule, req, market, open_positions, clock)
             THEN <<[id |-> rule.id,
                     action |-> IF rule.action = << >> THEN "warn" ELSE rule.action[1]]>>
                  \o rest
             ELSE rest

-----------------------------------------------------------------------------
(* validator.rs *)

\* apply_rule_hit with a reject hit handled like a warning
apply_rule_hit_lenient(hit, checks, can_trade) ==
    <<Append(checks, CheckResult("rule:" \o hit.id, TRUE, 1000, 1000, "rule-dsl")),
      can_trade>>

\* apply_rule_hit with every hit denying the order
apply_rule_hit_strict(hit, checks, can_trade) ==
    <<Append(checks, CheckResult("rule:" \o hit.id, FALSE, 1000, 0, "rule-dsl")),
      FALSE>>

\* apply_rule_hit: the pair <<checks, can_trade>> after one hit
apply_rule_hit(hit, checks, can_trade) ==
    IF hit.action = "reject"
    THEN <<Append(checks, CheckResult("rule:" \o hit.id, FALSE, 1000, 0, "rule-dsl")),
           FALSE>>
    ELSE <<Append(checks, CheckResult("rule:" \o hit.id, TRUE, 1000, 1000, "rule-dsl")),
           can_trade>>

RECURSIVE apply_rule_hits(_, _, _)
apply_rule_hits(hits, checks, can_trade) ==
    IF hits = << >> THEN <<checks, can_trade>>
    ELSE LET r == apply_rule_hit(Head(hits), checks, can_trade)
         IN  apply_rule_hits(Tail(hits), r[1], r[2])

halted(s) == ~s.can_trade \/ s.manual_halt

\* GateValidator::evaluate without the halt flags
validator_evaluate_no_halt(rules, req, s, checks, market, clock) ==
    LET hits == rule_engine_evaluate(rules, req, market, Cardinality(DOMAIN s.positions), clock)
        r    == apply_rule_hits(hits, checks, TRUE)
        can1 == IF \E k \in DOMAIN r[1] : ~r[1][k].passed THEN FALSE ELSE r[2]
    IN  [can_trade |-> can1, checks |-> r[1]]

\* GateValidator::evaluate
validator_evaluate(rules, req, s, checks, market, clock) ==
    LET can0 == ~halted(s)
        hits == rule_engine_evaluate(rules, req, market, Cardinality(DOMAIN s.positions), clock)
        r    == apply_rule_hits(hits, checks, can0)
        can1 == IF \E k \in DOMAIN r[1] : ~r[1][k].passed THEN FALSE ELSE r[2]
    IN  [can_trade |-> can1, checks |-> r[1]]

-----------------------------------------------------------------------------
(* exchange.rs *)

VenueOutcomes == {"ok", "sign_error", "network_error", "rejected"}

ExchangeOk(price, size) ==
    [ok |-> TRUE, executed_price |-> price, executed_size |-> size,
     fee |-> Abs(price * size)]            \* |price * size * 0.001| dollars

ExchangeErr(msg) == [ok |-> FALSE, error |-> msg]

\* submit_order taking a venue rejection for a success
submit_order_trusting(dry_run, size, planned_entry, venue) ==
    IF dry_run
    THEN IF size <= 0 THEN ExchangeErr("invalid order size")
         ELSE IF planned_entry <= 0 THEN ExchangeErr("invalid planned entry")
         ELSE ExchangeOk(planned_entry, size)
    ELSE IF planned_entry <= 0 THEN ExchangeErr("invalid planned entry")
         ELSE IF venue \in {"sign_error", "network_error"} THEN ExchangeErr(venue)
         ELSE ExchangeOk(planned_entry, size)

\* ExchangeClient::submit_order; venue is what signing, the network and the
\* venue answer in live mode
submit_order(dry_run, size, planned_entry, venue) ==
    IF dry_run
    THEN IF size <= 0 THEN ExchangeErr("invalid order size")
         ELSE IF planned_entry <= 0 THEN ExchangeErr("invalid planned entry")
         ELSE ExchangeOk(planned_entry, size)
    ELSE IF planned_entry <= 0 THEN ExchangeErr("invalid planned entry")
         ELSE IF venue # "ok" THEN ExchangeErr(venue)
         ELSE ExchangeOk(planned_entry, size)

-----------------------------------------------------------------------------
(* main.rs *)

SeedPrice == 10000

seed_market(symbol) ==
    [symbol |-> symbol, price |-> SeedPrice, spread_pct |-> 1, volume_ratio |-> 1000,
     realized_volatility |-> 350, funding_rate_zscore |-> 0, regime_id |-> "ranging"]

\* refresh_market at epoch second t; the price is kept in whole dollars
refresh_market(current, t) ==
    LET seconds    == t % 120
        next_price == Max(current.price + (current.price * (seconds - 60)) \div 10000, 1)
        funding    == (t % 20) * 100 - 1000
    IN  [symbol |-> current.symbol, price |-> next_price, spread_pct |-> 1,
         volume_ratio |-> 1000, realized_volatility |-> 350,
         funding_rate_zscore |-> funding,
         regime_id |-> IF Abs(funding) < 500 THEN "ranging"
                       ELSE IF funding > 0 THEN "volatile_crisis"
                       ELSE "volatile_mean_reverting"]

\* a search for the position to close that finds none
matching_exit_positions_none(s, strategy, symbol, entry_side) == {}

\* the ids find_matching_exit_position may return: map iteration order decides
\* which of several matches is found first
matching_exit_positions(s, strategy, symbol, entry_side) ==
    {i \in DOMAIN s.positions :
        /\ s.positions[i].strategy = strategy
        /\ s.positions[i].symbol = symbol
        /\ s.positions[i].side = opposite(entry_side)}

\* find_matching_exit_position takes the entry out of the map (remove_entry)
find_matching_exit_position(s, id) ==
    [s EXCEPT !.positions = MapRemove(@, id)]

\* the sign taken from the side of the position that is closed
realized_sign_of_position(side) == IF side = "Sell" THEN 1 ELSE -1

\* the sign applied to the realized P&L of an exit
realized_sign(side) == IF side = "Buy" THEN 1 ELSE -1

realized_pnl(fill_price, pos, close_size, side) ==
    (fill_price - pos.entry_price) * close_size * realized_sign(side) * 1000

fully_closed(close_size, pos) == close_size >= pos.size    \* pos.size - 1e-12

\* the exit fill with a signed quantity: negative for a sale
exit_fill_of_signed(req, pos, order_id, close_size, fill_price, fee, clock) ==
    [order_id |-> order_id, symbol |-> pos.symbol, side |-> req.side,
     size |-> IF req.side = "Sell" THEN -close_size ELSE close_size,
     price |-> fill_price, fee |-> fee,
     filled_at |-> clock.date, strategy |-> pos.strategy,
     thesis_slug |-> pos.thesis_slug, is_entry |-> FALSE]

exit_fill_of(req, pos, order_id, close_size, fill_price, fee, clock) ==
    [order_id |-> order_id, symbol |-> pos.symbol, side |-> req.side,
     size |-> close_size, price |-> fill_price, fee |-> fee,
     filled_at |-> clock.date, strategy |-> pos.strategy,
     thesis_slug |-> pos.thesis_slug, is_entry |-> FALSE]

\* the exit branch of SubmitOrder on the ledger (main.rs 507-534)
apply_exit(s, req, pos_id, order_id, fill_price, fee, clock) ==
    LET pos        == s.positions[pos_id]
        s1         == find_matching_exit_position(s, pos_id)
        close_size == Min(req.size, pos.size)
        realized   == realized_pnl(fill_price, pos, close_size, req.side)
        s2         == [s1 EXCEPT !.cash = @ + (realized - fee),
                                 !.account_value = @ + realized]
        exit_fill  == exit_fill_of(req, pos, order_id, close_size, fill_price, fee, clock)
        s3         == [s2 EXCEPT !.fills = Append(@, exit_fill)]
        s4         == add_fill(s3, exit_fill)
    IN  IF fully_closed(close_size, pos)
        THEN [s4 EXCEPT !.positions = MapRemove(@, pos_id)]
        ELSE s4

order_of(req, order_id, fill_price) ==
    [id |-> order_id, strategy |-> req.strategy, symbol |-> req.symbol,
     side |-> req.side, size |-> req.size, order_type |-> req.order_type,
     requested_price |-> <<fill_price>>, stop_price |-> req.stop_price,
     status |-> "Filled", thesis_slug |-> req.thesis_slug]

position_of(req, order_id, fill_price, clock) ==
    [id |-> order_id, strategy |-> req.strategy, symbol |-> req.symbol,
     side |-> req.side, size |-> req.size, entry_price |-> fill_price,
     entry_time |-> clock.date, thesis_slug |-> req.thesis_slug,
     stop_price |-> req.stop_price]

entry_fill_of(req, order_id, fill_price, fee, clock) ==
    [order_id |-> order_id, symbol |-> req.symbol, side |-> req.side,
     size |-> req.size, price |-> fill_price, fee |-> fee,
     filled_at |-> clock.date, strategy |-> req.strategy,
     thesis_slug |-> req.thesis_slug, is_entry |-> TRUE]

\* the entry branch with the cash debit taken before the fee is known
apply_entry_fee_free(s, req, order_id, fill_price, fee, clock) ==
    LET s1 == [s EXCEPT !.orders = MapInsert(@, order_id, order_of(req, order_id, fill_price)),
                        !.positions = MapInsert(@, order_id,
                                          position_of(req, order_id, fill_price, clock))]
        entry_fill == entry_fill_of(req, order_id, fill_price, 0, clock)
        s2 == [s1 EXCEPT !.fills = Append(@, entry_fill)]
    IN  add_fill(s2, entry_fill)

\* the entry branch of SubmitOrder on the ledger (main.rs 540-584)
apply_entry(s, req, order_id, fill_price, fee, clock) ==
    LET s1 == [s EXCEPT !.orders = MapInsert(@, order_id, order_of(req, order_id, fill_price)),
                        !.positions = MapInsert(@, order_id,
                                          position_of(req, order_id, fill_price, clock))]
        entry_fill == entry_fill_of(req, order_id, fill_price, fee, clock)
        s2 == [s1 EXCEPT !.fills = Append(@, entry_fill)]
    IN  add_fill(s2, entry_fill)

stop_order_verified(req) ==
    CheckResult("stop_order_verified", req.stop_price # << >>,
                IF req.stop_price # << >> THEN 1000 ELSE 0, 1000, "gate")

\* checks_failed without the filter
failing_unfiltered(checks) == checks

\* checks_failed of a Rejected response (main.rs 467)
failing(checks) == SelectSeq(checks, LAMBDA c : ~c.passed)

\* the gate left open
approved_always(ctx) == TRUE

\* the gate between the verdict and the adapter (main.rs 465)
approved(ctx) == ctx.can_trade

NoRiskCtx == [can_trade |-> FALSE, checks |-> << >>]

NoExecution == [path |-> "none"]

-----------------------------------------------------------------------------
(* audit.rs: the file is only ever appended to and never read back, so the
   model keeps the number of lines and the last line *)

EmptyLog == [count |-> 0, last |-> << >>]

append(log, line) == [count |-> log.count + 1, last |-> <<line>>]

\* log_submit_decision called on the approved path only
log_submit_decision_on_approval(log, checks, accepted) ==
    IF accepted
    THEN append(log, [request_type |-> "SubmitOrder", accepted |-> accepted,
                      order_id |-> "pending", checks |-> checks])
    ELSE log

log_submit_decision(log, checks, accepted) ==
    append(log, [request_type |-> "SubmitOrder", accepted |-> accepted,
                 order_id |-> "pending", checks |-> checks])

log_proposal(log, proposal_id, auto_approved, reason) ==
    append(log, [request_type |-> "ProposeRule", proposal_id |-> proposal_id,
                 auto_approved |-> auto_approved, reason |-> reason])

-----------------------------------------------------------------------------
(* db.rs *)

db_upsert_position(d, order, entry_price, clock) ==
    [d EXCEPT !.positions = MapInsert(@, order.id,
        [order_id |-> order.id, strategy |-> order.strategy, symbol |-> order.symbol,
         side |-> order.side, size |-> order.size, entry_price |-> entry_price,
         entry_time |-> clock.date, stop_price |-> order.stop_price,
         thesis_slug |-> order.thesis_slug])]

db_remove_position(d, order_id) == [d EXCEPT !.positions = MapRemove(@, order_id)]

db_insert_fill(d, fill) == [d EXCEPT !.fills = Append(@, fill)]

RECURSIVE Reverse(_)
Reverse(s) == IF s = << >> THEN << >> ELSE Append(Reverse(Tail(s)), Head(s))

\* fills_since: filled_at >= since, ORDER BY filled_at DESC
db_fills_since(d, since) ==
    Reverse(SelectSeq(d.fills, LAMBDA f : f.filled_at >= since))


-----------------------------------------------------------------------------
(* What is fixed at startup (main.rs 51-210) *)

TightConfig ==
    [hard_limits |->
        [max_total_capital |-> 10000 * 1000, max_single_position_pct |-> 10,
         max_single_trade_risk_pct |-> 1, max_total_exposure_pct |-> 30,
         max_daily_loss |-> 500 * 1000, max_weekly_loss |-> 1000 * 1000,
         max_drawdown_from_peak_pct |-> 10],
     kill_switches |-> [daily_loss_halt |-> TRUE, weekly_loss_halt |-> TRUE,
                        drawdown_halt |-> TRUE, manual_halt |-> FALSE],
     restricted_windows |-> << >>]

LooseConfig ==
    [hard_limits |->
        [max_total_capital |-> 100000 * 1000, max_single_position_pct |-> 50,
         max_single_trade_risk_pct |-> 50, max_total_exposure_pct |-> 100,
         max_daily_loss |-> 0, max_weekly_loss |-> 0,
         max_drawdown_from_peak_pct |-> 50],
     kill_switches |-> [daily_loss_halt |-> FALSE, weekly_loss_halt |-> TRUE,
                        drawdown_halt |-> TRUE, manual_halt |-> TRUE],
     restricted_windows |->
        << [day_of_week |-> <<1>>, hour_start_utc |-> << >>, hour_end_utc |-> <<5>>],
           [day_of_week |-> << >>, hour_start_utc |-> <<20>>, hour_end_utc |-> << >>] >>]

NoRules == << >>

SomeRules ==
    << [id |-> "size_cap", strategy |-> <<"S">>,
        conditions |-> << [field |-> "order.size", operator |-> "gte", value |-> 2],
                          [field |-> "order.side", operator |-> "gt", value |-> 0] >>,
        action |-> <<"reject">>],
       [id |-> "sell_note", strategy |-> << >>,
        conditions |-> << [field |-> "order.side", operator |-> "lt", value |-> 0] >>,
        action |-> << >>],
       [id |-> "shrink", strategy |-> <<"T">>,
        conditions |-> << >>,
        action |-> <<"reduce_size">>],
       [id |-> "mystery", strategy |-> << >>,
        conditions |-> << [field |-> "order.leverage", operator |-> "gte", value |-> 0] >>,
        action |-> <<"reject">>] >>

NoSeed == [kind |-> "none", cash |-> << >>, account_value |-> << >>]

AllWritable == [audit |-> TRUE, db |-> TRUE, files |-> TRUE]

Deployments ==
    { [safety |-> TightConfig, rules |-> NoRules, dry_run |-> TRUE, seed |-> NoSeed,
       storage |-> AllWritable],
      [safety |-> LooseConfig, rules |-> SomeRules, dry_run |-> TRUE, seed |-> NoSeed,
       storage |-> [audit |-> FALSE, db |-> TRUE, files |-> FALSE]],
      [safety |-> TightConfig, rules |-> SomeRules, dry_run |-> FALSE,
       seed |-> [kind |-> "snapshot", cash |-> <<20000 * 1000>>,
                 account_value |-> <<20000 * 1000>>],
       storage |-> [audit |-> TRUE, db |-> FALSE, files |-> TRUE]],
      [safety |-> LooseConfig, rules |-> NoRules, dry_run |-> FALSE,
       seed |-> [kind |-> "fallback", cash |-> << >>, account_value |-> <<6000 * 1000>>],
       storage |-> AllWritable] }

\* the ledger seeded with the configured manual kill switch
initial_state_switch_applied(dep) ==
    LET d == [GateStateDefault EXCEPT !.manual_halt = dep.safety.kill_switches.manual_halt]
        e == dep.seed
    IN  IF dep.dry_run THEN d
        ELSE IF e.kind = "snapshot"
        THEN [d EXCEPT !.cash = e.cash[1],
                       !.account_value = e.account_value[1],
                       !.equity_peak = Max(e.account_value[1], d.equity_peak)]
        ELSE LET d1 == IF e.cash # << >> THEN [d EXCEPT !.cash = e.cash[1]] ELSE d
             IN  IF e.account_value # << >>
                 THEN [d1 EXCEPT !.account_value = e.account_value[1],
                                 !.equity_peak = Max(e.account_value[1], d.equity_peak)]
                 ELSE d1

\* the ledger the accept loop starts with (main.rs 135-167)
initial_state(dep) ==
    LET d == GateStateDefault
        e == dep.seed
    IN  IF dep.dry_run THEN d
        ELSE IF e.kind = "snapshot"
        THEN [d EXCEPT !.cash = e.cash[1],
                       !.account_value = e.account_value[1],
                       !.equity_peak = Max(e.account_value[1], d.equity_peak)]
        ELSE LET d1 == IF e.cash # << >> THEN [d EXCEPT !.cash = e.cash[1]] ELSE d
             IN  IF e.account_value # << >>
                 THEN [d1 EXCEPT !.account_value = e.account_value[1],
                                 !.equity_peak = Max(e.account_value[1], d.equity_peak)]
                 ELSE d1

-----------------------------------------------------------------------------
(* Inputs *)

Product == "X"

Clocks == { [date |-> 0, hour |-> 3], [date |-> 1, hour |-> 21] }

NotBefore(c, old) == c.date > old.date \/ (c.date = old.date /\ c.hour >= old.hour)

Submit(strategy, symbol, side, size, entry, stop, stop_price) ==
    [request_type |-> "SubmitOrder", strategy |-> strategy, symbol |-> symbol,
     side |-> side, size |-> size, order_type |-> "Limit", stop_price |-> stop_price,
     thesis_slug |-> "thesis", planned_entry |-> entry, planned_stop |-> stop]

SubmitOrders ==
    { Submit("S", "X", "Buy", 1, 100, 99, <<99>>),
      Submit("S", "X", "Buy", 2, 100, 99, <<99>>),
      Submit("S", "X", "Sell", 1, 110, 111, <<111>>),
      Submit("S", "X", "Sell", 2, 110, 111, <<111>>),
      Submit("S", "X", "Buy", 1, 120, 99, <<99>>),
      Submit("T", "X", "Buy", 1, 100, 99, << >>),
      Submit("S", "Y", "Sell", 1, 110, 111, << >>),
      Submit("S", "X", "Sell", 2, 0, 99, << >>),
      Submit("S", "X", "Buy", 0, 100, 99, <<99>>),
      Submit("S", "X", "Buy", 1, 100, 101, <<101>>),
      Submit("S", "X", "Buy", 60, 100, 99, <<99>>) }

Ticks ==
    { [price |-> 10100, bid |-> <<10090>>, ask |-> <<10130>>, mark |-> << >>],
      [price |-> 9900, bid |-> << >>, ask |-> << >>, mark |-> <<400>>] }

\* a GetMarketData at epoch second t and what the live price fetch returned
Fetches ==
    { [t |-> 119, tick |-> << >>] }
        \cup {[t |-> 30, tick |-> <<k>>] : k \in Ticks}

Proposals ==
    { [rule_id |-> "size_cap", is_tightening |-> t] : t \in {<< >>, <<TRUE>>, <<FALSE>>} }

-----------------------------------------------------------------------------
(* The state machine *)

\* the clients that may connect to the socket
Clients == {"a", "b"}

NoConnection == [phase |-> "Idle", line |-> << >>, plan |-> << >>,
                 lines_read |-> << >>, lines_written |-> << >>]

\* main has bound the socket and is about to accept (main.rs 205-213)
Listening ==
    /\ main_pc = "accept"
    /\ conn = [c \in Clients |-> NoConnection]
    /\ locks = [state |-> "free", market |-> "free"]

\* a step seen at the grain of whole requests: the connection and the locks are
\* as they were before the request once its response is written
Detached == UNCHANGED <<main_pc, conn, locks>>

Init ==
    /\ deployment \in Deployments
    /\ state = initial_state(deployment)
    /\ market_cache = seed_market(Product)
    /\ db = [positions |-> EmptyMap, fills |-> << >>]
    /\ audit = EmptyLog
    /\ proposals = {}
    /\ adapter_calls = EmptyLog
    /\ now = [date |-> 0, hour |-> 3]
    /\ next_id = 1
    /\ request = [request_type |-> "None"]
    /\ risk_ctx = NoRiskCtx
    /\ execution = NoExecution
    /\ response = [response_type |-> "None"]
    /\ nreq = 0
    /\ Listening

Rejected(checks) == [response_type |-> "Rejected", checks_failed |-> checks]

Accepted(order_id, checks) ==
    [response_type |-> "Accepted", order_id |-> order_id, checks_passed |-> checks]

Error(message) == [response_type |-> "Error", message |-> message]

\* what every request does to the bookkeeping of the model
Served(req) ==
    /\ nreq < MaxRequests
    /\ nreq' = nreq + 1
    /\ request' = req
    /\ UNCHANGED deployment

\* the wall clock moves on between requests (chrono::Utc::now)
Tick(clock) ==
    /\ clock # now
    /\ NotBefore(clock, now)
    /\ now' = clock
    /\ UNCHANGED <<state, market_cache, db, audit, proposals, adapter_calls, deployment,
                   next_id, request, risk_ctx, execution, response, nreq>>

\* the write's failure passed on to the client
ignoring_reported(written, reply) ==
    IF written THEN reply ELSE [response_type |-> "Error", message |-> "write failed"]

\* let _ = <write>: the result of a side-channel write is dropped and the
\* handler's reply is what it would be anyway
ignoring(written, reply) == reply

\* handle_client on a line that does not parse as a GateRequest (main.rs 277-289)
Malformed ==
    /\ Served([request_type |-> "Malformed"])
    /\ response' = Error("invalid request payload")
    /\ risk_ctx' = NoRiskCtx
    /\ execution' = NoExecution
    /\ UNCHANGED <<state, market_cache, db, audit, proposals, adapter_calls, next_id, now>>

\* process_request, SubmitOrder (main.rs 427-591)
SubmitOrder(req) ==
    LET market  == market_cache
        storage == deployment.storage
        checks  == validate_request(req, deployment.safety,
                                    portfolio_state(state, now), market.price, now)
        order_id      == next_id
        desired_entry == IF req.planned_entry > 0 THEN req.planned_entry ELSE market.price
        matches       == matching_exit_positions(state, req.strategy, req.symbol, req.side)
    IN  /\ Served(req)
        /\ risk_ctx' = validator_evaluate(deployment.rules, req, state, checks, market, now)
        /\ audit' = IF storage.audit
                    THEN log_submit_decision(audit, risk_ctx'.checks, risk_ctx'.can_trade)
                    ELSE audit
        /\ UNCHANGED <<market_cache, proposals, now>>
        /\ IF ~approved(risk_ctx')
           THEN /\ response' = ignoring(storage.audit, Rejected(failing(risk_ctx'.checks)))
                /\ execution' = [path |-> "rejected"]
                /\ UNCHANGED <<state, db, adapter_calls, next_id>>
           ELSE
           /\ next_id' = next_id + 1
           /\ adapter_calls' = append(adapter_calls,
                  [client_order_id |-> order_id, symbol |-> req.symbol, side |-> req.side,
                   size |-> req.size, planned_entry |-> desired_entry])
           /\ \E venue \in (IF deployment.dry_run THEN {"ok"} ELSE VenueOutcomes) :
              LET result     == submit_order(deployment.dry_run, req.size, desired_entry, venue)
                  fill_price == Max(result.executed_price, 1)
                  fee        == result.fee
                  passed     == Append(risk_ctx'.checks, stop_order_verified(req))
              IN
              IF ~result.ok
              THEN /\ response' = Error(result.error)
                   /\ execution' = [path |-> "error", order_id |-> order_id,
                                    venue |-> venue]
                   /\ UNCHANGED <<state, db>>
              ELSE IF matches # {}
              THEN \E pos_id \in matches :
                   LET pos        == state.positions[pos_id]
                       close_size == Min(req.size, pos.size)
                       exit_fill  == exit_fill_of(req, pos, order_id, close_size,
                                                  fill_price, fee, now)
                       d1 == IF storage.db THEN db_insert_fill(db, exit_fill) ELSE db
                       d2 == IF fully_closed(close_size, pos) /\ storage.db
                             THEN db_remove_position(d1, pos_id) ELSE d1
                   IN  /\ state' = apply_exit(state, req, pos_id, order_id,
                                              fill_price, fee, now)
                       /\ db' = d2
                       /\ execution' = [path |-> "exit", order_id |-> order_id,
                                        pos_id |-> pos_id, pos |-> pos,
                                        close_size |-> close_size, venue |-> venue,
                                        fill_price |-> fill_price, fee |-> fee]
                       /\ response' = ignoring(storage.audit /\ storage.db,
                                               Accepted(order_id, passed))
              ELSE LET entry_fill == entry_fill_of(req, order_id, fill_price, fee, now)
                       d1 == IF storage.db
                             THEN db_upsert_position(db, order_of(req, order_id, fill_price),
                                                     fill_price, now)
                             ELSE db
                       d2 == IF storage.db THEN db_insert_fill(d1, entry_fill) ELSE d1
                   IN  /\ state' = apply_entry(state, req, order_id, fill_price, fee, now)
                       /\ db' = d2
                       /\ execution' = [path |-> "entry", order_id |-> order_id,
                                        venue |-> venue,
                                        fill_price |-> fill_price, fee |-> fee]
                       /\ response' = ignoring(storage.audit /\ storage.db,
                                               Accepted(order_id, passed))

\* what a request other than SubmitOrder leaves alone
NoSubmit == risk_ctx' = NoRiskCtx /\ execution' = NoExecution

\* process_request, GetPortfolio (main.rs 317-320)
GetPortfolio ==
    /\ Served([request_type |-> "GetPortfolio"])
    /\ response' = [response_type |-> "Portfolio", payload |-> portfolio_state(state, now)]
    /\ NoSubmit
    /\ UNCHANGED <<state, market_cache, db, audit, proposals, adapter_calls, next_id, now>>

\* process_request, GetOpenOrders (main.rs 321-324); the order of the values of a
\* HashMap is unspecified, so the payload is the set of orders
GetOpenOrders ==
    /\ Served([request_type |-> "GetOpenOrders"])
    /\ response' = [response_type |-> "Orders",
                    payload |-> {state.orders[i] : i \in DOMAIN state.orders}]
    /\ NoSubmit
    /\ UNCHANGED <<state, market_cache, db, audit, proposals, adapter_calls, next_id, now>>

\* process_request, GetFillHistory (main.rs 325-338); since is the parsed
\* timestamp, or None when the text is not RFC 3339
GetFillHistory(since) ==
    /\ Served([request_type |-> "GetFillHistory", since |-> since])
    /\ response' = IF since = << >> THEN Error("invalid since timestamp")
                   ELSE IF ~deployment.storage.db THEN Error("db read fills failed")
                   ELSE [response_type |-> "Fills", payload |-> db_fills_since(db, since[1])]
    /\ NoSubmit
    /\ UNCHANGED <<state, market_cache, db, audit, proposals, adapter_calls, next_id, now>>

\* the cached snapshot after a live price tick (main.rs 342-361)
apply_tick(m, tick) ==
    LET quoted     == tick.bid # << >> /\ tick.ask # << >>
        spread_pct == IF quoted /\ tick.price > 0
                      THEN (Abs(tick.ask[1] - tick.bid[1]) * 1000) \div tick.price
                      ELSE 1
        wide       == IF quoted /\ tick.price > 0
                      THEN Abs(tick.ask[1] - tick.bid[1]) * 10000 > 25 * tick.price
                      ELSE FALSE
    IN  [m EXCEPT !.price = tick.price,
                  !.spread_pct = spread_pct,
                  !.realized_volatility = IF tick.mark # << >> THEN tick.mark[1] ELSE @,
                  !.regime_id = IF wide THEN "volatile_spread" ELSE "ranging"]

\* handle_client's refresh (main.rs 291-294) and process_request, GetMarketData
\* (main.rs 339-370); t is the epoch second, tick the live price fetch (None: failed)
GetMarketData(symbol, t, tick) ==
    LET m0 == refresh_market(market_cache, t)
        m1 == IF ~deployment.dry_run /\ tick # << >>
              THEN apply_tick(m0, tick[1])
              ELSE refresh_market(m0, t)
        m2 == [m1 EXCEPT !.symbol = symbol]
    IN  /\ Served([request_type |-> "GetMarketData", symbol |-> symbol])
        /\ market_cache' = m2
        /\ response' = [response_type |-> "MarketData", payload |-> m2]
        /\ NoSubmit
        /\ UNCHANGED <<state, db, audit, proposals, adapter_calls, next_id, now>>

\* CancelOrder taking the position out together with the order
CancelOrder_closing(order_id) ==
    /\ Served([request_type |-> "CancelOrder", order_id |-> order_id])
    /\ IF order_id \in DOMAIN state.orders
       THEN /\ state' = [state EXCEPT !.orders = MapRemove(@, order_id),
                                      !.positions = MapRemove(@, order_id)]
            /\ response' = Accepted(order_id,
                   <<CheckResult("cancel", TRUE, 1000, 1000, "agent_api")>>)
       ELSE /\ state' = state
            /\ response' = Rejected(
                   <<CheckResult("order_not_found", FALSE, 0, 1000, "agent_api")>>)
    /\ risk_ctx' = NoRiskCtx /\ execution' = NoExecution
    /\ UNCHANGED <<market_cache, db, audit, proposals, adapter_calls, next_id, now>>

\* process_request, CancelOrder (main.rs 371-395)
CancelOrder(order_id) ==
    /\ Served([request_type |-> "CancelOrder", order_id |-> order_id])
    /\ IF order_id \in DOMAIN state.orders
       THEN /\ state' = [state EXCEPT !.orders = MapRemove(@, order_id)]
            /\ response' = Accepted(order_id,
                   <<CheckResult("cancel", TRUE, 1000, 1000, "agent_api")>>)
       ELSE /\ state' = state
            /\ response' = Rejected(
                   <<CheckResult("order_not_found", FALSE, 0, 1000, "agent_api")>>)
    /\ NoSubmit
    /\ UNCHANGED <<market_cache, db, audit, proposals, adapter_calls, next_id, now>>

\* TightenStop moving the stop of the order and of its position
TightenStop_applied(order_id, new_stop) ==
    /\ Served([request_type |-> "TightenStop", order_id |-> order_id, new_stop |-> new_stop])
    /\ response' = Accepted("stop_tighten_ack",
                       <<CheckResult("tighten_stop", TRUE, 1000, 1000, "agent_api")>>)
    /\ state' = [state EXCEPT
          !.orders = [i \in DOMAIN @ |->
                         IF i = order_id THEN [@[i] EXCEPT !.stop_price = <<new_stop>>]
                         ELSE @[i]],
          !.positions = [i \in DOMAIN @ |->
                         IF i = order_id THEN [@[i] EXCEPT !.stop_price = <<new_stop>>]
                         ELSE @[i]]]
    /\ risk_ctx' = NoRiskCtx /\ execution' = NoExecution
    /\ UNCHANGED <<market_cache, db, audit, proposals, adapter_calls, next_id, now>>

\* process_request, TightenStop (main.rs 396-405)
TightenStop(order_id, new_stop) ==
    /\ Served([request_type |-> "TightenStop", order_id |-> order_id, new_stop |-> new_stop])
    /\ response' = Accepted("stop_tighten_ack",
                       <<CheckResult("tighten_stop", TRUE, 1000, 1000, "agent_api")>>)
    /\ NoSubmit
    /\ UNCHANGED <<state, market_cache, db, audit, proposals, adapter_calls, next_id, now>>

\* process_request, ProposeRule (main.rs 406-426)
ProposeRule(proposal) ==
    LET is_tightening == IF proposal.is_tightening = << >> THEN FALSE
                         ELSE proposal.is_tightening[1]
        dir    == IF is_tightening THEN "proposals/applied" ELSE "proposals/pending"
        reason == IF is_tightening THEN "tightening rules auto-approved"
                  ELSE "requires_human review"
    IN  /\ Served([request_type |-> "ProposeRule", proposal |-> proposal])
        /\ proposals' = IF deployment.storage.files
                        THEN proposals \cup {<<dir, proposal.rule_id>>} ELSE proposals
        /\ audit' = IF deployment.storage.audit
                    THEN log_proposal(audit, proposal.rule_id, is_tightening, reason)
                    ELSE audit
        /\ response' = ignoring(deployment.storage.files /\ deployment.storage.audit,
                                 [response_type |-> "ProposalAcknowledged",
                                  proposal_id |-> proposal.rule_id,
                                  auto_approved |-> is_tightening, reason |-> reason])
        /\ NoSubmit
        /\ UNCHANGED <<state, market_cache, db, adapter_calls, next_id, now>>

Next ==
    \/ \E clock \in Clocks : Tick(clock) /\ Detached
    \/ Malformed /\ Detached
    \/ \E req \in SubmitOrders : SubmitOrder(req) /\ Detached
    \/ GetPortfolio /\ Detached
    \/ GetOpenOrders /\ Detached
    \/ \E since \in {<< >>, <<1>>} : GetFillHistory(since) /\ Detached
    \/ \E fetch \in (IF deployment.dry_run THEN {f \in Fetches : f.tick = << >>} ELSE Fetches) :
            GetMarketData(Product, fetch.t, fetch.tick) /\ Detached
    \/ \E order_id \in {1, next_id} : CancelOrder(order_id) /\ Detached
    \/ TightenStop(1, 98) /\ Detached
    \/ \E proposal \in Proposals : ProposeRule(proposal) /\ Detached

Spec == Init /\ [][Next]_vars

-----------------------------------------------------------------------------
(* The gate stopped and started again: main runs from the top (main.rs 48-210).
   The store, the audit log and the proposal files are on disk and survive; the
   ledger and the market snapshot are built anew and nothing is read back from
   the store *)

Restart ==
    /\ state' = initial_state(deployment)
    /\ market_cache' = seed_market(Product)
    /\ request' = [request_type |-> "None"]
    /\ risk_ctx' = NoRiskCtx
    /\ execution' = NoExecution
    /\ response' = [response_type |-> "None"]
    /\ UNCHANGED <<db, audit, proposals, adapter_calls, deployment, now, next_id, nreq>>

NextRestart == Next \/ (Restart /\ Detached)

SpecRestart == Init /\ [][NextRestart]_vars

-----------------------------------------------------------------------------
(* The socket: main's accept loop and handle_client's request loop, one step per
   await.  What a request does to the ledger, the snapshot and the stores is the
   request's action above, taken at the step where the handler has the lock it
   works under *)

\* the lines a client writes to the socket
ConnLines ==
    { [request_type |-> "Malformed"],
      [request_type |-> "GetPortfolio"],
      [request_type |-> "GetMarketData", symbol |-> Product],
      [request_type |-> "TightenStop", order_id |-> 1, new_stop |-> 98],
      Submit("S", "X", "Buy", 1, 100, 99, <<99>>) }

Lock(l) == [op |-> "lock", lock |-> l]

Unlock(l) == [op |-> "unlock", lock |-> l]

Work == [op |-> "process"]

Send == [op |-> "send"]

Return == [op |-> "return"]

\* SubmitOrder with the market guard bound to a name and so kept to the end
lock_plan_guard_kept(req) ==
    IF req.request_type = "SubmitOrder"
    THEN <<Lock("market"), Lock("state"), Work, Unlock("state"), Unlock("market")>>
    ELSE IF req.request_type = "GetMarketData"
    THEN <<Lock("market"), Unlock("market"), Lock("market"), Work, Unlock("market")>>
    ELSE IF req.request_type \in {"GetPortfolio", "GetOpenOrders", "CancelOrder"}
    THEN <<Lock("state"), Work, Unlock("state")>>
    ELSE <<Work>>

\* the mutexes a request takes and drops, in order: GetMarketData takes the market
\* lock in handle_client (main.rs 291-294) and again in process_request (340-369);
\* SubmitOrder takes it for the clone only (452) and then the ledger lock (453-590)
lock_plan(req) ==
    IF req.request_type = "SubmitOrder"
    THEN <<Lock("market"), Unlock("market"), Lock("state"), Work, Unlock("state")>>
    ELSE IF req.request_type = "GetMarketData"
    THEN <<Lock("market"), Unlock("market"), Lock("market"), Work, Unlock("market")>>
    ELSE IF req.request_type \in {"GetPortfolio", "GetOpenOrders", "CancelOrder"}
    THEN <<Lock("state"), Work, Unlock("state")>>
    ELSE <<Work>>

\* a parse failure that goes on to the next line without a reply
parse_error_plan_silent == <<Work>>

\* a parse failure that replies and then leaves the request loop
parse_error_plan_hangup == <<Work, Send, Return>>

\* a line that does not parse: reply Error, then continue (main.rs 279-288)
parse_error_plan == <<Work, Send>>

\* what handle_client does with one line (main.rs 277-299)
handler_plan(line) ==
    IF line.request_type = "Malformed" THEN parse_error_plan
    ELSE lock_plan(line) \o <<Send>>

\* spawning the handler leaves main free to accept at once
accepting_while_serving(pc) == pc \in {"accept", "handle_client"}

\* an accept loop that outlives a failed connection
accepting_after_error(pc) == pc \in {"accept", "exited"}

\* main is at listener.accept() only when no handle_client call is awaited
accepting(pc) == pc = "accept"

DataUnchanged ==
    UNCHANGED <<state, market_cache, db, audit, proposals, adapter_calls, deployment,
                now, next_id, request, risk_ctx, execution, response, nreq>>

\* a client connects; the connection waits in the listener's queue
Connect(c) ==
    /\ conn[c].phase = "Idle"
    /\ conn' = [conn EXCEPT ![c].phase = "Pending"]
    /\ UNCHANGED <<main_pc, locks>>
    /\ DataUnchanged

\* listener.accept() returns and handle_client is called and awaited (main.rs 213-224)
Accept(c) ==
    /\ accepting(main_pc)
    /\ conn[c].phase = "Pending"
    /\ conn' = [conn EXCEPT ![c].phase = "Serving"]
    /\ main_pc' = "handle_client"
    /\ UNCHANGED locks
    /\ DataUnchanged

\* reader.read_line returns a line (main.rs 272)
ReadLine(c, line) ==
    /\ conn[c].phase = "Serving"
    /\ conn[c].plan = << >>
    /\ nreq < MaxRequests
    /\ conn' = [conn EXCEPT ![c].line = <<line>>,
                            ![c].plan = handler_plan(line),
                            ![c].lines_read = Append(@, line.request_type)]
    /\ UNCHANGED <<main_pc, locks>>
    /\ DataUnchanged

\* reader.read_line returns 0: the client closed its end (main.rs 273-275)
ReadEof(c) ==
    /\ conn[c].phase = "Serving"
    /\ conn[c].plan = << >>
    /\ conn' = [conn EXCEPT ![c].plan = <<Return>>]
    /\ UNCHANGED <<main_pc, locks>>
    /\ DataUnchanged

\* reader.read_line fails (main.rs 272): the ? returns the error from
\* handle_client, and main returns it in turn (main.rs 224)
ReadFails(c) ==
    /\ conn[c].phase = "Serving"
    /\ conn[c].plan = << >>
    /\ conn' = [conn EXCEPT ![c].phase = "Closed"]
    /\ main_pc' = "exited"
    /\ UNCHANGED locks
    /\ DataUnchanged

\* handle_client returns Ok and main loops back to accept (main.rs 301, 212)
HandlerReturns(c) ==
    /\ conn[c].phase = "Serving"
    /\ conn[c].plan # << >>
    /\ Head(conn[c].plan) = Return
    /\ conn' = [conn EXCEPT ![c].phase = "Closed", ![c].plan = << >>]
    /\ main_pc' = "accept"
    /\ UNCHANGED locks
    /\ DataUnchanged

\* mutex.lock().await: granted when the mutex is free
Acquire(c) ==
    /\ conn[c].phase = "Serving"
    /\ conn[c].plan # << >>
    /\ Head(conn[c].plan).op = "lock"
    /\ locks[Head(conn[c].plan).lock] = "free"
    /\ locks' = [locks EXCEPT ![Head(conn[c].plan).lock] = c]
    /\ conn' = [conn EXCEPT ![c].plan = Tail(@)]
    /\ UNCHANGED main_pc
    /\ DataUnchanged

\* the guard is dropped
Release(c) ==
    /\ conn[c].phase = "Serving"
    /\ conn[c].plan # << >>
    /\ Head(conn[c].plan).op = "unlock"
    /\ locks[Head(conn[c].plan).lock] = c
    /\ locks' = [locks EXCEPT ![Head(conn[c].plan).lock] = "free"]
    /\ conn' = [conn EXCEPT ![c].plan = Tail(@)]
    /\ UNCHANGED main_pc
    /\ DataUnchanged

\* the request's own work
Process(c) ==
    /\ conn[c].phase = "Serving"
    /\ conn[c].plan # << >>
    /\ Head(conn[c].plan) = Work
    /\ LET req == conn[c].line[1] IN
       \/ req.request_type = "Malformed" /\ Malformed
       \/ req.request_type = "GetPortfolio" /\ GetPortfolio
       \/ /\ req.request_type = "GetMarketData"
          /\ \E fetch \in (IF deployment.dry_run THEN {f \in Fetches : f.tick = << >>}
                           ELSE Fetches) :
                GetMarketData(req.symbol, fetch.t, fetch.tick)
       \/ req.request_type = "TightenStop" /\ TightenStop(req.order_id, req.new_stop)
       \/ req.request_type = "SubmitOrder" /\ SubmitOrder(req)
    /\ conn' = [conn EXCEPT ![c].plan = Tail(@)]
    /\ UNCHANGED <<main_pc, locks>>

\* send_json (main.rs 661-670): the response line is written and flushed, or the
\* write fails, handle_client returns the error and main returns it (main.rs 224)
SendJson(c, written) ==
    /\ conn[c].phase = "Serving"
    /\ conn[c].plan # << >>
    /\ Head(conn[c].plan) = Send
    /\ IF written
       THEN /\ conn' = [conn EXCEPT
                   ![c].plan = Tail(@),
                   ![c].lines_written = Append(@,
                       [answers |-> Len(conn[c].lines_read),
                        response_type |-> response.response_type])]
            /\ UNCHANGED main_pc
       ELSE /\ conn' = [conn EXCEPT ![c].phase = "Closed", ![c].plan = << >>]
            /\ main_pc' = "exited"
    /\ UNCHANGED locks
    /\ DataUnchanged

NextConn ==
    \/ \E c \in Clients : Connect(c)
    \/ \E c \in Clients : Accept(c)
    \/ \E c \in Clients, line \in ConnLines : ReadLine(c, line)
    \/ \E c \in Clients : ReadEof(c)
    \/ \E c \in Clients : ReadFails(c)
    \/ \E c \in Clients : HandlerReturns(c)
    \/ \E c \in Clients : Acquire(c)
    \/ \E c \in Clients : Release(c)
    \/ \E c \in Clients : Process(c)
    \/ \E c \in Clients, written \in BOOLEAN : SendJson(c, written)

SpecConn == Init /\ [][NextConn]_vars

-----------------------------------------------------------------------------
(* The Decision Validator alone: GateValidator::evaluate applied to ledgers whose
   halt flags take every value *)

EvalLedgers(dep) ==
    LET s0 == initial_state(dep)
        s1 == apply_entry(s0, Submit("S", "X", "Buy", 1, 100, 99, <<99>>), 1, 100, 100, now)
    IN  {[s EXCEPT !.can_trade = c, !.manual_halt = h] :
            s \in {s0, s1}, c \in BOOLEAN, h \in BOOLEAN}

InitEval ==
    /\ deployment \in Deployments
    /\ now = [date |-> 0, hour |-> 3]
    /\ state \in EvalLedgers(deployment)
    /\ market_cache = seed_market(Product)
    /\ db = [positions |-> EmptyMap, fills |-> << >>]
    /\ audit = EmptyLog
    /\ proposals = {}
    /\ adapter_calls = EmptyLog
    /\ next_id = 2
    /\ request = [request_type |-> "None"]
    /\ risk_ctx = NoRiskCtx
    /\ execution = NoExecution
    /\ response = [response_type |-> "None"]
    /\ nreq = 0
    /\ Listening

\* validate_request followed by GateValidator::evaluate (main.rs 452-462)
Evaluate(req) ==
    LET checks == validate_request(req, deployment.safety,
                                   portfolio_state(state, now), market_cache.price, now)
    IN  /\ Served(req)
        /\ risk_ctx' = validator_evaluate(deployment.rules, req, state, checks,
                                          market_cache, now)
        /\ UNCHANGED <<state, market_cache, db, audit, proposals, adapter_calls, now,
                       next_id, execution, response>>

NextEval ==
    \/ \E clock \in Clocks : Tick(clock) /\ Detached
    \/ \E req \in SubmitOrders : Evaluate(req) /\ Detached

SpecEval == InitEval /\ [][NextEval]_vars

-----------------------------------------------------------------------------
(* The Hard-Limit Evaluator and the Rule Engine as functions of their inputs:
   validate_request and RuleEngine::evaluate applied to configurations, rule
   sets, clocks, ledgers and snapshots drawn from bounded sets *)

Window(day, start, end) ==
    [day_of_week |-> day, hour_start_utc |-> start, hour_end_utc |-> end]

\* restricted_windows of safety.yaml: none, one, or several
RiskWindows ==
    { << >>,
      << Window(<< >>, << >>, << >>) >>,
      << Window(<<2>>, << >>, << >>) >>,
      << Window(<< >>, <<9>>, <<17>>) >>,
      << Window(<<0>>, <<9>>, << >>) >>,
      << Window(<<2>>, << >>, <<8>>), Window(<<0>>, <<18>>, << >>) >>,
      << Window(<< >>, <<22>>, <<2>>), Window(<<1>>, <<9>>, <<9>>) >> }

RiskConfigs ==
    { [config EXCEPT !.restricted_windows = w] :
        config \in {TightConfig, LooseConfig}, w \in RiskWindows }

\* rule files over every field of the symbol table, and over fields outside it
FieldRules ==
    << [id |-> "pricey", strategy |-> << >>,
        conditions |-> << [field |-> "market.price", operator |-> "gt", value |-> 5000] >>,
        action |-> <<"warn">>],
       [id |-> "late", strategy |-> << >>,
        conditions |-> << [field |-> "time.hour_utc", operator |-> "gte", value |-> 17],
                          [field |-> "time.day_of_week", operator |-> "eq", value |-> 2] >>,
        action |-> <<"reject">>],
       [id |-> "crowded", strategy |-> <<"S">>,
        conditions |-> << [field |-> "portfolio.open_position_count",
                           operator |-> "gte", value |-> 1],
                          [field |-> "portfolio.total_exposure_pct",
                           operator |-> "gt", value |-> 0] >>,
        action |-> <<"reduce_size">>],
       [id |-> "big", strategy |-> << >>,
        conditions |-> << [field |-> "order.notional", operator |-> "gt",
                           value |-> 150 * 1000],
                          [field |-> "order.risk_pct", operator |-> "lte",
                           value |-> 5 * 1000],
                          [field |-> "order.size", operator |-> "neq", value |-> 60] >>,
        action |-> << >>],
       [id |-> "calm", strategy |-> <<"T">>,
        conditions |-> << [field |-> "market.volatility", operator |-> "lt", value |-> 400],
                          [field |-> "market.funding_rate_zscore",
                           operator |-> "lte", value |-> 0],
                          [field |-> "market.volume_ratio", operator |-> "eq",
                           value |-> 1000],
                          [field |-> "market.spread_pct", operator |-> "lt", value |-> 5] >>,
        action |-> <<"warn">>],
       [id |-> "typo", strategy |-> << >>,
        conditions |-> << [field |-> "market.price", operator |-> "gt", value |-> 0],
                          [field |-> "portfolio.drawdown", operator |-> "lt", value |-> 1] >>,
        action |-> <<"reject">>],
       [id |-> "typo_neq", strategy |-> << >>,
        conditions |-> << [field |-> "order.price", operator |-> "neq", value |-> 0] >>,
        action |-> <<"reject">>] >>

RiskDeployments ==
    { [safety |-> config, rules |-> rules, dry_run |-> TRUE, seed |-> NoSeed,
       storage |-> AllWritable] :
        config \in RiskConfigs, rules \in {SomeRules, FieldRules} }

\* Utc::now(): a Monday, a Wednesday and the Wednesday after, at the hours where
\* the windows begin and end
RiskClocks == { [date |-> d, hour |-> h] : d \in {0, 2, 9}, h \in {8, 9, 17, 18, 23} }

\* the cached snapshot, as seeded and after a tick near the orders' prices
RiskMarkets ==
    { seed_market(Product), [seed_market(Product) EXCEPT !.price = 100] }

RiskLedgers(dep) ==
    LET s0 == initial_state(dep)
    IN  { s0,
          apply_entry(s0, Submit("S", "X", "Buy", 1, 100, 99, <<99>>), 1, 100, 100, now) }

\* the submissions of the request-level model, market orders (planned_entry 0)
\* on both sides, and an order that breaks several limits at once
RiskOrders ==
    SubmitOrders \cup
    { Submit("S", "X", "Buy", 1, 0, 99, <<99>>),
      Submit("S", "X", "Buy", 1, 0, 101, <<101>>),
      Submit("S", "X", "Sell", 1, 0, 101, <<101>>),
      Submit("S", "X", "Buy", 60, 100, 120, <<120>>) }

InitRisk ==
    /\ deployment \in RiskDeployments
    /\ now \in RiskClocks
    /\ state \in RiskLedgers(deployment)
    /\ market_cache \in RiskMarkets
    /\ db = [positions |-> EmptyMap, fills |-> << >>]
    /\ audit = EmptyLog
    /\ proposals = {}
    /\ adapter_calls = EmptyLog
    /\ next_id = 2
    /\ request = [request_type |-> "None"]
    /\ risk_ctx = NoRiskCtx
    /\ execution = NoExecution
    /\ response = [response_type |-> "None"]
    /\ nreq = 0
    /\ Listening

NextRisk == \E req \in RiskOrders : Evaluate(req) /\ Detached

SpecRisk == InitRisk /\ [][NextRisk]_vars

-----------------------------------------------------------------------------
(* The gate near its limits: a ledger seeded just inside the drawdown limit, and
   a configuration whose exposure limit is close to its single-position limit *)

NarrowConfig ==
    [hard_limits |->
        [max_total_capital |-> 10000 * 1000, max_single_position_pct |-> 10,
         max_single_trade_risk_pct |-> 1, max_total_exposure_pct |-> 15,
         max_daily_loss |-> 500 * 1000, max_weekly_loss |-> 1000 * 1000,
         max_drawdown_from_peak_pct |-> 10],
     kill_switches |-> [daily_loss_halt |-> TRUE, weekly_loss_halt |-> TRUE,
                        drawdown_halt |-> TRUE, manual_halt |-> FALSE],
     restricted_windows |-> << >>]

EdgeDeployments ==
    { [safety |-> TightConfig, rules |-> NoRules, dry_run |-> FALSE,
       seed |-> [kind |-> "fallback", cash |-> << >>, account_value |-> <<9005 * 1000>>],
       storage |-> AllWritable],
      [safety |-> NarrowConfig, rules |-> NoRules, dry_run |-> TRUE, seed |-> NoSeed,
       storage |-> AllWritable] }

EdgeOrders ==
    { Submit("S", "X", "Buy", 1, 100, 99, <<99>>),
      Submit("S", "X", "Sell", 1, 110, 111, <<111>>),
      Submit("S", "X", "Buy", 8, 100, 99, <<99>>),
      Submit("S", "X", "Sell", 8, 110, 111, <<111>>) }

InitEdge ==
    /\ deployment \in EdgeDeployments
    /\ state = initial_state(deployment)
    /\ market_cache = seed_market(Product)
    /\ db = [positions |-> EmptyMap, fills |-> << >>]
    /\ audit = EmptyLog
    /\ proposals = {}
    /\ adapter_calls = EmptyLog
    /\ now = [date |-> 0, hour |-> 3]
    /\ next_id = 1
    /\ request = [request_type |-> "None"]
    /\ risk_ctx = NoRiskCtx
    /\ execution = NoExecution
    /\ response = [response_type |-> "None"]
    /\ nreq = 0
    /\ Listening

NextEdge ==
    \/ \E clock \in Clocks : Tick(clock) /\ Detached
    \/ Malformed /\ Detached
    \/ \E req \in EdgeOrders : SubmitOrder(req) /\ Detached
    \/ GetPortfolio /\ Detached
    \/ GetOpenOrders /\ Detached
    \/ \E since \in {<< >>, <<1>>} : GetFillHistory(since) /\ Detached
    \/ \E fetch \in (IF deployment.dry_run THEN {f \in Fetches : f.tick = << >>} ELSE Fetches) :
            GetMarketData(Product, fetch.t, fetch.tick) /\ Detached
    \/ \E order_id \in {1, next_id} : CancelOrder(order_id) /\ Detached
    \/ TightenStop(1, 98) /\ Detached
    \/ \E proposal \in Proposals : ProposeRule(proposal) /\ Detached

SpecEdge == InitEdge /\ [][NextEdge]_vars

-----------------------------------------------------------------------------
(* Properties *)

\* a step that serves one request
RequestStep == nreq' = nreq + 1

SubmitStep == RequestStep /\ request'.request_type = "SubmitOrder"

IsSubmit == request.request_type = "SubmitOrder"

HardLimit(c) == c.source = "safety.yaml"

\* C1: the adapter's submit_order is called only for a submission whose verdict is
\* can_trade; a submission whose verdict is false is answered Rejected, makes no
\* adapter call and leaves the whole ledger as it was.
C1_AdapterOnlyWhenApproved ==
    [][ /\ adapter_calls' # adapter_calls => SubmitStep /\ risk_ctx'.can_trade
        /\ SubmitStep /\ ~risk_ctx'.can_trade =>
              /\ response'.response_type = "Rejected"
              /\ adapter_calls' = adapter_calls
              /\ state' = state ]_vars

C1_Witness ==
    /\ IsSubmit /\ ~risk_ctx.can_trade
    /\ response.response_type = "Rejected"
    /\ adapter_calls.count > 0
    /\ DOMAIN state.positions # {}

\* C2: the verdict is true exactly when the ledger's can_trade flag is set, its
\* manual_halt flag is clear, every hard-limit check passed and no matching rule
\* rejects; the RiskContext carries the hard-limit checks followed by one check
\* per rule hit, in rule order, whatever the verdict.
C2_VerdictIsConjunction ==
    [][ SubmitStep =>
        LET hard     == validate_request(request', deployment.safety,
                                         portfolio_state(state, now), market_cache.price, now)
            n        == Len(hard)
            matching == SelectSeq(deployment.rules, LAMBDA r :
                            rule_matches(r, request', market_cache,
                                         Cardinality(DOMAIN state.positions), now))
            rejects  == \E j \in DOMAIN matching : matching[j].action = <<"reject">>
            checks   == risk_ctx'.checks
        IN  /\ risk_ctx'.can_trade <=>
                  /\ state.can_trade
                  /\ ~state.manual_halt
                  /\ \A k \in 1..n : hard[k].passed
                  /\ ~rejects
            /\ Len(checks) = n + Len(matching)
            /\ SubSeq(checks, 1, n) = hard
            /\ \A j \in DOMAIN matching :
                  /\ checks[n + j].check_name = "rule:" \o matching[j].id
                  /\ checks[n + j].source = "rule-dsl" ]_vars

C2_Witness ==
    /\ IsSubmit /\ ~risk_ctx.can_trade
    /\ state.manual_halt /\ state.can_trade
    /\ \A k \in DOMAIN risk_ctx.checks : risk_ctx.checks[k].passed
    /\ \E k \in DOMAIN risk_ctx.checks : ~HardLimit(risk_ctx.checks[k])

\* the checks that did not pass, in their order
RECURSIVE NotPassed(_)
NotPassed(checks) ==
    IF checks = << >> THEN << >>
    ELSE (IF Head(checks).passed THEN << >> ELSE <<Head(checks)>>) \o NotPassed(Tail(checks))

\* C3: a submission with a failing hard-limit check is answered Rejected, and
\* checks_failed is exactly the evaluated checks that did not pass, in order.
C3_RejectedListsExactlyFailing ==
    [][ /\ SubmitStep
        /\ \E k \in DOMAIN risk_ctx'.checks :
              HardLimit(risk_ctx'.checks[k]) /\ ~risk_ctx'.checks[k].passed
        => /\ response'.response_type = "Rejected"
           /\ response'.checks_failed = NotPassed(risk_ctx'.checks) ]_vars

C3_Witness ==
    /\ IsSubmit
    /\ response.response_type = "Rejected"
    /\ \E k \in DOMAIN risk_ctx.checks :
          HardLimit(risk_ctx.checks[k]) /\ ~risk_ctx.checks[k].passed
    /\ Len(response.checks_failed) >= 2
    /\ Len(response.checks_failed) < Len(risk_ctx.checks)

\* C4: when a rule with action reject matches a submission the verdict is false,
\* also when every hard-limit check passes, and the Rejected response lists the
\* hit as a failing check named rule:<id>.
C4_RejectRuleDenies ==
    [][ SubmitStep =>
        \A k \in DOMAIN deployment.rules :
            LET rule == deployment.rules[k] IN
            /\ rule.action = <<"reject">>
            /\ rule_matches(rule, request', market_cache,
                            Cardinality(DOMAIN state.positions), now)
            => /\ ~risk_ctx'.can_trade
               /\ response'.response_type = "Rejected"
               /\ \E j \in DOMAIN response'.checks_failed :
                     /\ response'.checks_failed[j].check_name = "rule:" \o rule.id
                     /\ ~response'.checks_failed[j].passed ]_vars

C4_Witness ==
    /\ IsSubmit
    /\ response.response_type = "Rejected"
    /\ \A k \in DOMAIN risk_ctx.checks :
          HardLimit(risk_ctx.checks[k]) => risk_ctx.checks[k].passed
    /\ response.checks_failed =
          <<CheckResult("rule:size_cap", FALSE, 1000, 0, "rule-dsl")>>

\* C5: when the adapter fails for an approved submission (in live mode signing,
\* the network or the venue; in dry-run a size or price that is not positive) the
\* response is Error and the ledger and the store are as before the request.
C5_AdapterErrorLeavesLedger ==
    [][ SubmitStep =>
        /\ /\ adapter_calls' # adapter_calls
           /\ \/ ~deployment.dry_run /\ execution'.venue # "ok"
              \/ adapter_calls'.last[1].planned_entry <= 0
              \/ deployment.dry_run /\ adapter_calls'.last[1].size <= 0
           => response'.response_type = "Error"
        /\ response'.response_type = "Error" => state' = state /\ db' = db ]_vars

C5_Witness ==
    /\ IsSubmit
    /\ response.response_type = "Error"
    /\ risk_ctx.can_trade
    /\ execution.path = "error"
    /\ state.fills # << >>

\* C6: equity_peak never decreases, whatever the request.
C6_PeakNeverDecreases ==
    [][ state'.equity_peak >= state.equity_peak ]_vars

C6_Witness ==
    /\ state.equity_peak > initial_state(deployment).equity_peak
    /\ state.fills # << >>

ExitStep == SubmitStep /\ response'.response_type = "Accepted" /\ execution'.path = "exit"

\* C7: in every reachable ledger with equity_peak > 0 the drawdown that
\* portfolio_state reports, (equity_peak - account_value) / equity_peak, is in [0, 1].
C7_DrawdownInUnitInterval ==
    state.equity_peak > 0 =>
        LET d == portfolio_state(state, now).drawdown_from_peak
        IN  0 <= d[1] /\ d[1] <= d[2]

\* C8: an accepted Sell that closes a long position above its entry price adds
\* (fill_price - entry_price) * closed size, a positive amount, to account_value.
C8_LongCloseAboveEntryBooksGain ==
    [][ /\ ExitStep
        /\ request'.side = "Sell" /\ execution'.pos.side = "Buy"
        /\ execution'.fill_price > execution'.pos.entry_price
        => /\ state'.account_value - state.account_value =
                 Notional(execution'.fill_price - execution'.pos.entry_price,
                          execution'.close_size)
           /\ state'.account_value > state.account_value ]_vars

\* C9: an accepted exit changes cash by the realized P&L it books to account_value
\* minus the fee of the fill, the fee charged once and nothing else moved.
C9_ExitCashIsRealizedMinusFee ==
    [][ ExitStep =>
           state'.cash - state.cash =
               (state'.account_value - state.account_value) - execution'.fee ]_vars

\* C10: after an accepted exit smaller than the matched position, the position is
\* still in the positions map with its size unchanged; a position leaves the map
\* only when the closed size covers position.size.
C10_PartialCloseKeepsPosition ==
    [][ /\ ExitStep /\ execution'.close_size < execution'.pos.size
           => /\ execution'.pos_id \in DOMAIN state'.positions
              /\ state'.positions[execution'.pos_id].size = execution'.pos.size
        /\ \A id \in DOMAIN state.positions \ DOMAIN state'.positions :
              /\ ExitStep /\ execution'.pos_id = id
              /\ execution'.close_size >= state.positions[id].size ]_vars

AcceptedSubmit == SubmitStep /\ response'.response_type = "Accepted"

EntryStep == AcceptedSubmit /\ execution'.path = "entry"

\* C11: every SubmitOrder answered Accepted, entry or exit, leaves an Order under
\* the returned order_id in the orders map, so a GetOpenOrders served next lists it.
C11_AcceptedOrderIsRecorded ==
    [][ AcceptedSubmit =>
           /\ response'.order_id \in DOMAIN state'.orders
           /\ state'.orders[response'.order_id].id = response'.order_id ]_vars

\* C12: the fill history is append-only and an accepted SubmitOrder appends exactly
\* one Fill: the earlier fills stay as they were, the history grows by one on an
\* accepted submission and not at all on any other request.
C12_OneFillPerAcceptedSubmit ==
    [][ /\ Len(state'.fills) >= Len(state.fills)
        /\ SubSeq(state'.fills, 1, Len(state.fills)) = state.fills
        /\ Len(state'.fills) = Len(state.fills) + (IF AcceptedSubmit THEN 1 ELSE 0) ]_vars

\* C13: an accepted entry debits cash by fill_price * size + fee, creates one
\* Position under the new order id with the submitted size and the fill price as
\* entry price, and leaves account_value and equity_peak as they were.
C13_EntryDebitsCashAndOpensPosition ==
    [][ EntryStep =>
        LET id == response'.order_id IN
        /\ state.cash - state'.cash =
              Notional(execution'.fill_price, request'.size) + execution'.fee
        /\ DOMAIN state'.positions = DOMAIN state.positions \cup {id}
        /\ id \notin DOMAIN state.positions
        /\ state'.positions[id].size = request'.size
        /\ state'.positions[id].entry_price = execution'.fill_price
        /\ \A i \in DOMAIN state.positions : state'.positions[i] = state.positions[i]
        /\ state'.account_value = state.account_value
        /\ state'.equity_peak = state.equity_peak ]_vars

C13_Witness ==
    /\ IsSubmit /\ response.response_type = "Accepted"
    /\ execution.path = "entry"
    /\ Cardinality(DOMAIN state.positions) = 2
    /\ state.account_value < state.equity_peak

\* C14: when the store's writes succeed it mirrors the ledger: after every request
\* the order ids of the positions table are the keys of the positions map.
C14_StoreMirrorsPositions ==
    deployment.storage.db => DOMAIN db.positions = DOMAIN state.positions

\* C15: a gate that has just started holds the open positions and the fills that
\* were persisted before it stopped.
C15_RestartRecoversPersistedState ==
    request.request_type = "None" =>
        /\ \A id \in DOMAIN db.positions :
              /\ id \in DOMAIN state.positions
              /\ state.positions[id].size = db.positions[id].size
        /\ \A k \in DOMAIN db.fills :
              \E j \in DOMAIN state.fills : state.fills[j] = db.fills[k]

ServingClients == {c \in Clients : conn[c].phase = "Serving"}

\* C16: at most one connection is in Serving at any instant; main is back at
\* accept only when no connection is being served, so the request handling of two
\* connections never interleaves.
C16_OneConnectionServed ==
    /\ Cardinality(ServingClients) <= 1
    /\ main_pc = "accept" => ServingClients = {}
    /\ \A c \in Clients : conn[c].plan # << >> => ServingClients = {c}

C16_Witness ==
    /\ conn["a"].phase = "Closed" /\ conn["a"].lines_written # << >>
    /\ conn["b"].phase = "Serving" /\ conn["b"].lines_written # << >>

\* the response types a request line can be answered with
Answers(request_type) ==
    CASE request_type = "Malformed"     -> {"Error"}
      [] request_type = "GetPortfolio"  -> {"Portfolio"}
      [] request_type = "GetMarketData" -> {"MarketData"}
      [] request_type = "TightenStop"   -> {"Accepted"}
      [] request_type = "SubmitOrder"   -> {"Accepted", "Rejected", "Error"}

\* C17: on a connection the k-th response line written answers the k-th request
\* line read, malformed lines included; at most one line read is unanswered, and
\* none is when the handler is about to read the next line.
C17_OneResponsePerLineInOrder ==
    \A c \in Clients :
        LET r == conn[c].lines_read
            w == conn[c].lines_written
        IN  /\ Len(w) <= Len(r) /\ Len(r) <= Len(w) + 1
            /\ \A k \in DOMAIN w :
                  /\ w[k].answers = k
                  /\ w[k].response_type \in Answers(r[k])
            /\ conn[c].phase = "Serving" /\ conn[c].plan = << >> => Len(w) = Len(r)

C17_Witness ==
    \E c \in Clients :
        /\ conn[c].lines_read = <<"GetPortfolio", "Malformed", "SubmitOrder">>
        /\ Len(conn[c].lines_written) = 3
        /\ conn[c].lines_written[3].response_type = "Accepted"

\* C18: no handler holds the ledger lock and the market-snapshot lock together, and
\* a handler that is about to take a lock finds it free, so none ever waits.
C18_LocksNeverHeldTogether ==
    /\ \A c \in Clients : ~(locks.state = c /\ locks.market = c)
    /\ locks.state = "free" \/ locks.market = "free"
    /\ \A c \in Clients :
          conn[c].plan # << >> /\ Head(conn[c].plan).op = "lock"
              => locks[Head(conn[c].plan).lock] = "free"

C18_Witness ==
    /\ locks.state = "a" /\ locks.market = "free"
    /\ conn["a"].line # << >> /\ conn["a"].line[1].request_type = "SubmitOrder"
    /\ conn["a"].lines_read = <<"GetMarketData", "SubmitOrder">>

\* C19: a line that does not parse is answered Error, changes neither the ledger
\* nor the market snapshot, and leaves the connection in Serving with the handler
\* ready for the next line once the Error is written.
C19_MalformedLineIsAnsweredAndSkipped ==
    [][ /\ RequestStep /\ request'.request_type = "Malformed" =>
              /\ response'.response_type = "Error"
              /\ state' = state /\ market_cache' = market_cache /\ db' = db
              /\ ServingClients' = ServingClients
        /\ \A c \in Clients :
              /\ conn[c].line = <<[request_type |-> "Malformed"]>>
              /\ conn[c].phase = "Serving" /\ conn[c].plan # << >>
              /\ Len(conn[c].lines_written) < Len(conn[c].lines_read)
              => \/ conn'[c] = conn[c]
                 \/ conn'[c].phase = "Serving" /\ conn'[c].plan = <<Send>>
                 \/ /\ conn'[c].phase = "Serving" /\ conn'[c].plan = << >>
                    /\ Len(conn'[c].lines_written) = Len(conn[c].lines_read)
                    /\ conn'[c].lines_written[Len(conn[c].lines_read)].response_type = "Error"
                 \/ conn'[c].phase = "Closed" /\ main_pc' = "exited" ]_vars

C19_Witness ==
    \E c \in Clients :
        /\ conn[c].lines_read = <<"Malformed", "SubmitOrder">>
        /\ Len(conn[c].lines_written) = 2
        /\ conn[c].lines_written[2].response_type = "Accepted"
        /\ state.positions # EmptyMap

\* C20: a failed store, audit or proposal-file write changes neither the response
\* nor the ledger: both are what the request yields from the ledger, the snapshot
\* and the configuration alone, whether or not the writes succeed; a failed write
\* is not repeated, and a working audit log gets at most one line per request.
C20_WriteFailuresChangeNothing ==
    [][ RequestStep =>
        LET storage == deployment.storage
            ex      == execution'
            passed  == Append(risk_ctx'.checks, stop_order_verified(request'))
        IN
        /\ request'.request_type = "SubmitOrder" =>
              /\ risk_ctx' = validator_evaluate(deployment.rules, request', state,
                                 validate_request(request', deployment.safety,
                                     portfolio_state(state, now), market_cache.price, now),
                                 market_cache, now)
              /\ ex.path = "rejected" =>
                    /\ response' = Rejected(NotPassed(risk_ctx'.checks))
                    /\ state' = state
              /\ ex.path = "error" =>
                    response'.response_type = "Error" /\ state' = state
              /\ ex.path = "entry" =>
                    /\ response' = Accepted(ex.order_id, passed)
                    /\ state' = apply_entry(state, request', ex.order_id,
                                            ex.fill_price, ex.fee, now)
              /\ ex.path = "exit" =>
                    /\ response' = Accepted(ex.order_id, passed)
                    /\ state' = apply_exit(state, request', ex.pos_id, ex.order_id,
                                           ex.fill_price, ex.fee, now)
        /\ request'.request_type = "ProposeRule" =>
              /\ response'.response_type = "ProposalAcknowledged"
              /\ response'.proposal_id = request'.proposal.rule_id
              /\ response'.auto_approved = (request'.proposal.is_tightening = <<TRUE>>)
              /\ state' = state
        /\ ~storage.db => db' = db
        /\ ~storage.audit => audit' = audit
        /\ ~storage.files => proposals' = proposals
        /\ audit'.count <= audit.count + 1 ]_vars

C20_Witness ==
    /\ ~deployment.storage.db
    /\ IsSubmit /\ response.response_type = "Accepted"
    /\ execution.path = "exit"
    /\ db.fills = << >>
    /\ state.fills # << >>

\* C21: every evaluated SubmitOrder appends exactly one line to a writable audit
\* log, whether it is rejected, approved and executed, or approved and refused by
\* the venue; the line carries every check of the verdict and accepted = can_trade.
\* It is written after the verdict and before the adapter call and the response:
\* it has the order id "pending", holds the verdict's checks without the
\* stop_order_verified check that is added for the response, and is there even
\* when the adapter call that follows fails.
C21_EverySubmitAuditedOnce ==
    [][ SubmitStep /\ deployment.storage.audit =>
        LET verdict == risk_ctx' IN
        /\ audit'.count = audit.count + 1
        /\ audit'.last = << [request_type |-> "SubmitOrder",
                             accepted |-> verdict.can_trade,
                             order_id |-> "pending",
                             checks |-> verdict.checks] >>
        /\ Len(verdict.checks) >= 11
        /\ execution'.path \in {"entry", "exit", "error"} =>
              /\ adapter_calls'.count = adapter_calls.count + 1
              /\ audit'.last[1].accepted
        /\ execution'.path = "rejected" =>
              /\ adapter_calls' = adapter_calls
              /\ ~audit'.last[1].accepted ]_vars

C21_Witness ==
    /\ IsSubmit /\ deployment.storage.audit
    /\ execution.path = "rejected"
    /\ audit.count = 3
    /\ audit.last[1].request_type = "SubmitOrder"
    /\ ~audit.last[1].accepted
    /\ adapter_calls.count = 2

\* the ledger fields a request other than an order may not touch
LedgerMoney(s) == <<s.cash, s.account_value, s.equity_peak, s.positions, s.fills>>

\* C22: CancelOrder{order_id} is answered Accepted, and takes that order (and no
\* other) out of the orders map, exactly when the id is in the map; otherwise it
\* is answered Rejected with the single check order_not_found and the map stays
\* as it is. Either way positions, cash, account_value, equity_peak and fills do
\* not change and the id is not in the map afterwards, so a second cancel of the
\* same id is Rejected and the position the order opened stays open.
C22_CancelRemovesOnlyTheOrder ==
    [][ RequestStep /\ request'.request_type = "CancelOrder" =>
        LET id      == request'.order_id
            present == id \in DOMAIN state.orders
        IN  /\ response'.response_type = "Accepted" <=> present
            /\ present =>
                  /\ response'.order_id = id
                  /\ state'.orders = MapRemove(state.orders, id)
            /\ ~present =>
                  /\ response'.response_type = "Rejected"
                  /\ Len(response'.checks_failed) = 1
                  /\ response'.checks_failed[1].check_name = "order_not_found"
                  /\ ~response'.checks_failed[1].passed
                  /\ state'.orders = state.orders
            /\ id \notin DOMAIN state'.orders
            /\ LedgerMoney(state') = LedgerMoney(state)
            /\ id \in DOMAIN state.positions => id \in DOMAIN state'.positions ]_vars

\* a second cancel of an order whose position is open
C22_Witness ==
    /\ request.request_type = "CancelOrder"
    /\ request.order_id = 1
    /\ response.response_type = "Rejected"
    /\ nreq = 3
    /\ 1 \in DOMAIN state.positions
    /\ 1 \notin DOMAIN state.orders

\* C23: GetPortfolio, GetOpenOrders, GetFillHistory, TightenStop and ProposeRule
\* leave cash, account_value, equity_peak, orders, positions and fills as they
\* are, whatever their arguments; TightenStop is answered Accepted whether or not
\* its order_id is known, and no order and no position has another stop after it.
C23_QueriesLeaveLedger ==
    [][ /\ RequestStep
        /\ request'.request_type \in {"GetPortfolio", "GetOpenOrders", "GetFillHistory",
                                      "TightenStop", "ProposeRule"}
        => /\ LedgerMoney(state') = LedgerMoney(state)
           /\ state'.orders = state.orders
           /\ request'.request_type = "TightenStop" =>
                 /\ response'.response_type = "Accepted"
                 /\ \A i \in DOMAIN state.orders :
                       state'.orders[i].stop_price = state.orders[i].stop_price
                 /\ \A i \in DOMAIN state.positions :
                       state'.positions[i].stop_price = state.positions[i].stop_price ]_vars

\* TightenStop for an id that is no order's, while a position with that id and
\* another stop is open
C23_Witness ==
    /\ request.request_type = "TightenStop"
    /\ response.response_type = "Accepted"
    /\ request.order_id \notin DOMAIN state.orders
    /\ request.order_id \in DOMAIN state.positions
    /\ state.positions[request.order_id].stop_price # <<request.new_stop>>

\* the names of a sequence of checks
Names(checks) == [k \in DOMAIN checks |-> checks[k].check_name]

HardLimitNames ==
    << "max_single_trade_risk", "max_single_position", "max_total_exposure",
       "liquidity_check", "spread_check", "drawdown_halt", "daily_loss_halt",
       "weekly_loss_halt", "time_window_restriction", "stop_order_valid",
       "event_overlap_acknowledged" >>

\* the checks of safety.yaml in a verdict
HardChecks(checks) == SelectSeq(checks, HardLimit)

\* C24: for every SubmitOrder the Hard-Limit Evaluator returns exactly eleven
\* checks, in the order max_single_trade_risk, max_single_position,
\* max_total_exposure, liquidity_check, spread_check, drawdown_halt,
\* daily_loss_halt, weekly_loss_halt, time_window_restriction, stop_order_valid,
\* event_overlap_acknowledged, whichever of them fail; they are the first eleven
\* checks of the verdict, and whatever follows them comes from the rules.
C24_ElevenChecksInOrder ==
    IsSubmit =>
        /\ Names(HardChecks(risk_ctx.checks)) = HardLimitNames
        /\ Len(risk_ctx.checks) >= Len(HardLimitNames)
        /\ SubSeq(risk_ctx.checks, 1, Len(HardLimitNames)) = HardChecks(risk_ctx.checks)

\* five of the limits broken by one submission, the first among them
C24_Witness ==
    /\ IsSubmit
    /\ Len(risk_ctx.checks) >= 11
    /\ \A k \in {1, 2, 3, 9, 10} : ~risk_ctx.checks[k].passed
    /\ \A k \in {4, 5, 6, 7, 8, 11} : risk_ctx.checks[k].passed

\* the current time is within the window: the weekday is the window's if it
\* names one, and the hour is from its first hour (or 0) to its last (or 23)
Inside(window, clock) ==
    /\ window.day_of_week # << >> => window.day_of_week[1] = clock.date % 7
    /\ window.hour_start_utc # << >> => clock.hour >= window.hour_start_utc[1]
    /\ window.hour_end_utc # << >> => clock.hour <= window.hour_end_utc[1]
    /\ clock.hour \in 0..23

\* C25: time_window_restriction fails exactly when the current UTC time is inside
\* at least one restricted window of the configuration; a window without
\* day_of_week holds on every day, a window without hours covers the whole day,
\* and of several windows one is enough.
C25_WindowCheckFailsInsideAnyWindow ==
    IsSubmit =>
        LET windows == deployment.safety.restricted_windows
            c       == risk_ctx.checks[9]
        IN  /\ c.check_name = "time_window_restriction"
            /\ ~c.passed <=> \E k \in DOMAIN windows : Inside(windows[k], now)

\* two windows configured and the time inside the second only
C25_Witness ==
    LET windows == deployment.safety.restricted_windows IN
    /\ IsSubmit
    /\ Len(windows) = 2
    /\ ~Inside(windows[1], now)
    /\ Inside(windows[2], now)
    /\ windows[2].hour_end_utc = << >>
    /\ ~risk_ctx.checks[9].passed

\* the fixed symbol table of the rule engine
SymbolTable ==
    { "market.price", "market.funding_rate_zscore", "market.volume_ratio",
      "market.volatility", "market.spread_pct", "time.day_of_week", "time.hour_utc",
      "portfolio.total_exposure_pct", "portfolio.open_position_count",
      "order.size", "order.notional", "order.side", "order.risk_pct" }

\* the rule's strategy filter lets the submission through and every one of its
\* conditions names a field of the table whose value compares true
RuleApplies(rule) ==
    /\ rule.strategy = << >> \/ rule.strategy = <<request.strategy>>
    /\ \A k \in DOMAIN rule.conditions :
          LET c == rule.conditions[k] IN
          /\ c.field \in SymbolTable
          /\ compare(resolve_field(c.field, request, market_cache,
                                   Cardinality(DOMAIN state.positions), now)[1],
                     c.operator, c.value)

RuleCheckNames(rules) == [k \in DOMAIN rules |-> "rule:" \o rules[k].id]

\* C26: RuleEngine::evaluate hits exactly the loaded rules whose strategy filter
\* is absent or equal to the submission's strategy and whose every condition
\* resolves its field and compares true, in the order they were loaded; a rule
\* with a condition on a field outside the symbol table never hits.
C26_HitsAreTheApplyingRules ==
    IsSubmit =>
        LET hits == SelectSeq(risk_ctx.checks, LAMBDA c : ~HardLimit(c))
        IN  /\ Names(hits) = RuleCheckNames(SelectSeq(deployment.rules, RuleApplies))
            /\ \A k \in DOMAIN deployment.rules :
                  (\E j \in DOMAIN deployment.rules[k].conditions :
                      deployment.rules[k].conditions[j].field \notin SymbolTable)
                  => \A i \in DOMAIN hits :
                        hits[i].check_name # "rule:" \o deployment.rules[k].id

\* two rules hit; a third has all its conditions met and is kept out by its
\* strategy filter alone, a fourth has a met condition and one on an unknown field
C26_Witness ==
    /\ IsSubmit
    /\ deployment.rules = FieldRules
    /\ request.strategy = "T"
    /\ state.positions # EmptyMap
    /\ Names(SelectSeq(risk_ctx.checks, LAMBDA c : ~HardLimit(c)))
          = <<"rule:pricey", "rule:calm">>

\* the rules whose hit is a warning or a size reduction (warn is the default)
SoftRuleChecks ==
    { "rule:" \o deployment.rules[k].id :
        k \in {j \in DOMAIN deployment.rules : deployment.rules[j].action # <<"reject">>} }

\* C27: a hit of a rule with action warn or reduce_size is recorded as a passing
\* check rule:<id> and never denies the order: can_trade is what the halt flags
\* and the other checks make it. An approved order that had such a hit goes to
\* the adapter, and into the ledger's order, position and fill, with the size
\* that was requested (an exit's fill with the part of it that closes the
\* position).
C27_SoftHitsPassAndKeepSize ==
    IsSubmit =>
        LET checks == risk_ctx.checks
            soft   == {k \in DOMAIN checks : checks[k].check_name \in SoftRuleChecks}
            id     == execution.order_id
        IN  /\ \A k \in soft : checks[k].passed /\ checks[k].source = "rule-dsl"
            /\ risk_ctx.can_trade <=>
                  /\ ~halted(state)
                  /\ \A k \in DOMAIN checks \ soft : checks[k].passed
            /\ soft # {} /\ execution.path \in {"entry", "exit", "error"} =>
                  adapter_calls.last[1].size = request.size
            /\ soft # {} /\ execution.path = "entry" =>
                  /\ response.response_type = "Accepted"
                  /\ id \in DOMAIN state.positions => state.positions[id].size = request.size
                  /\ id \in DOMAIN state.orders => state.orders[id].size = request.size
                  /\ state.fills[Len(state.fills)].size = request.size
            /\ soft # {} /\ execution.path = "exit" =>
                  state.fills[Len(state.fills)].size
                      = Min(request.size, execution.pos.size)

\* a sale of two units that a warning rule hit, opened as a position of two
C27_Witness ==
    /\ IsSubmit
    /\ request.size = 2
    /\ \E k \in DOMAIN risk_ctx.checks :
          /\ risk_ctx.checks[k].check_name = "rule:sell_note"
          /\ risk_ctx.checks[k].passed
    /\ execution.path = "entry"
    /\ response.response_type = "Accepted"
    /\ state.positions[execution.order_id].size = 2
    /\ adapter_calls.last[1].size = 2

\* C28: in every reachable ledger there is at most one open position for a
\* strategy, a symbol and a side, so a submission finds at most one position of
\* the opposite side to close.
C28_OnePositionPerStrategySymbolSide ==
    \A i, j \in DOMAIN state.positions :
        /\ state.positions[i].strategy = state.positions[j].strategy
        /\ state.positions[i].symbol = state.positions[j].symbol
        /\ state.positions[i].side = state.positions[j].side
        => i = j

\* C29: an accepted exit changes account_value by
\* (fill_price - entry_price) * min(size, position.size) * s, with s = +1 when
\* the submitted, closing side is Buy and s = -1 when it is Sell.
C29_ExitBooksSignedDifference ==
    [][ ExitStep =>
        LET pos == state.positions[execution'.pos_id]
            s   == IF request'.side = "Buy" THEN 1 ELSE -1
            closed == IF request'.size < pos.size THEN request'.size ELSE pos.size
        IN  state'.account_value - state.account_value
               = (execution'.fill_price - pos.entry_price) * closed * s * 1000 ]_vars

\* a long position closed by a Sell above its entry price
C29_Witness ==
    /\ IsSubmit /\ execution.path = "exit"
    /\ response.response_type = "Accepted"
    /\ request.side = "Sell"
    /\ execution.fill_price > execution.pos.entry_price
    /\ state.account_value = initial_state(deployment).account_value
          - (execution.fill_price - execution.pos.entry_price) * execution.close_size * 1000

\* C30: when planned_entry is not positive, max_single_trade_risk,
\* max_single_position, max_total_exposure, liquidity_check and stop_order_valid
\* are what they are for the same submission with the market price as its
\* planned_entry; stop_order_valid passes for a Buy iff planned_stop is below the
\* market price (for a Sell iff it is above).
C30_MarketPriceIsTheEntryPrice ==
    IsSubmit /\ request.planned_entry <= 0 =>
        LET priced == [request EXCEPT !.planned_entry = market_cache.price]
            want   == validate_request(priced, deployment.safety,
                                       portfolio_state(state, now), market_cache.price, now)
            stop   == risk_ctx.checks[10]
        IN  /\ \A k \in {1, 2, 3, 4, 10} : risk_ctx.checks[k] = want[k]
            /\ stop.check_name = "stop_order_valid"
            /\ stop.passed <=> IF request.side = "Buy"
                               THEN request.planned_stop < market_cache.price
                               ELSE request.planned_stop > market_cache.price

\* the connection's handler ends in this step
HandlerEnds(c) == conn[c].phase = "Serving" /\ conn'[c].phase = "Closed"

\* C31: a failed line read or a failed response write ends handle_client with
\* the error and the gate with it: main is no longer at accept, and from then on
\* no connection is accepted, no line is read, no request is served and nothing
\* changes but clients queueing up. A handler that ends on a clean end of input
\* puts main back at accept.
C31_IoErrorEndsTheGate ==
    [][ /\ \A c \in Clients :
              HandlerEnds(c) =>
                 IF conn[c].plan # << >> /\ Head(conn[c].plan) = Return
                 THEN main_pc' = "accept"
                 ELSE main_pc' = "exited"
        /\ main_pc = "exited" =>
              /\ main_pc' = "exited"
              /\ \A c \in Clients :
                    /\ conn'[c].phase = "Serving" <=> conn[c].phase = "Serving"
                    /\ conn'[c].lines_read = conn[c].lines_read
                    /\ conn'[c].lines_written = conn[c].lines_written
              /\ DataUnchanged
              /\ UNCHANGED locks ]_vars

\* the first client's write failed after its request was served; the second
\* client waits in the queue of a gate that has exited
C31_Witness ==
    /\ main_pc = "exited"
    /\ \E c, d \in Clients :
          /\ conn[c].phase = "Closed"
          /\ Len(conn[c].lines_written) < Len(conn[c].lines_read)
          /\ conn[d].phase = "Pending"
    /\ state.positions # EmptyMap

\* the ledger's drawdown is above the configured limit (a fraction, kept in
\* hundredths)
DrawdownExceeded(s) ==
    /\ s.equity_peak > 0
    /\ (s.equity_peak - s.account_value) * 100
          > deployment.safety.hard_limits.max_drawdown_from_peak_pct * s.equity_peak

Exposure(s) ==
    SetSum([i \in DOMAIN s.positions |->
               s.positions[i].entry_price * s.positions[i].size * 1000],
           DOMAIN s.positions)

\* a submission that meets an open position of the other side of its strategy
\* and symbol
MeetsOpenPosition(req, s) ==
    \E i \in DOMAIN s.positions :
        /\ s.positions[i].strategy = req.strategy
        /\ s.positions[i].symbol = req.symbol
        /\ s.positions[i].side # req.side

\* C33: a submission that would close an open position gets the eleven
\* hard-limit checks of any submission; its max_total_exposure check is the
\* exposure of all open positions, the one it would close included, plus its own
\* notional, against the exposure limit. When the sum is above the limit the
\* submission is Rejected and the positions stay as they are.
C33_ExitChecksExposureLikeEntry ==
    [][ SubmitStep /\ MeetsOpenPosition(request', state) =>
        LET req   == request'
            hl    == deployment.safety.hard_limits
            price == IF req.planned_entry > 0 THEN req.planned_entry ELSE market_cache.price
            sum   == Exposure(state) + price * req.size * 1000
            limit == hl.max_total_exposure_pct * (hl.max_total_capital \div 100)
            c     == risk_ctx'.checks[3]
        IN  /\ Len(risk_ctx'.checks) >= 11
            /\ c.check_name = "max_total_exposure"
            /\ c.value = sum /\ c.limit = limit
            /\ c.passed <=> sum <= limit
            /\ sum > limit =>
                  /\ response'.response_type = "Rejected"
                  /\ state'.positions = state.positions
                  /\ execution'.path = "rejected" ]_vars

\* an exit within the single-position limit, refused for the exposure alone,
\* with the position it was to close still open
C33_Witness ==
    /\ IsSubmit
    /\ MeetsOpenPosition(request, state)
    /\ response.response_type = "Rejected"
    /\ Len(response.checks_failed) = 1
    /\ response.checks_failed[1].check_name = "max_total_exposure"
    /\ risk_ctx.checks[2].passed
    /\ Exposure(state) <= risk_ctx.checks[3].limit

\* C34: every check in the checks_passed of an Accepted SubmitOrder response has
\* passed = true, the stop_order_verified check appended after the verdict
\* included, whether or not the submission carried a stop_price.
C34_AcceptedListsOnlyPassedChecks ==
    IsSubmit /\ response.response_type = "Accepted" =>
        \A k \in DOMAIN response.checks_passed : response.checks_passed[k].passed

\* C35: no strategy and symbol has open positions on both sides. A submission
\* opens a position only when no position of the other side is open for its
\* strategy and symbol; otherwise it closes one and opens none.
C35_NoPositionsOnBothSides ==
    /\ \A i, j \in DOMAIN state.positions :
          /\ state.positions[i].strategy = state.positions[j].strategy
          /\ state.positions[i].symbol = state.positions[j].symbol
          => state.positions[i].side = state.positions[j].side
    /\ IsSubmit /\ execution.path = "entry" =>
          /\ ~MeetsOpenPosition(request, state)
          /\ execution.order_id \in DOMAIN state.positions
    /\ IsSubmit /\ execution.path = "exit" =>
          /\ execution.order_id \notin DOMAIN state.positions
          /\ execution.pos.strategy = request.strategy
          /\ execution.pos.symbol = request.symbol
          /\ execution.pos.side # request.side

\* a sale taken as the exit of one of two open longs: the other long is still
\* open and no short was opened beside it
C35_Witness ==
    /\ IsSubmit /\ execution.path = "exit"
    /\ request.side = "Sell"
    /\ \E i \in DOMAIN state.positions :
          /\ state.positions[i].strategy = request.strategy
          /\ state.positions[i].symbol = request.symbol
          /\ state.positions[i].side = "Buy"

\* C36: after startup and after every request equity_peak >= account_value, so
\* the drawdown the ledger reports is never negative; for the default seed, the
\* account snapshot and the configured fallback alike.
C36_PeakAtLeastAccountValue ==
    /\ state.equity_peak >= state.account_value
    /\ drawdown(state)[1] >= 0
    /\ portfolio_state(state, now).drawdown_from_peak[1] >= 0

\* a ledger seeded from the account snapshot whose account_value has grown past
\* the seeded peak
C36_Witness ==
    /\ deployment.seed.kind = "snapshot"
    /\ state.account_value > initial_state(deployment).equity_peak
    /\ state.equity_peak = state.account_value

\* C37: the daily and weekly P&L of portfolio_state are never negative: they add
\* size * price / 1000 over exit fills, whose size and price are positive. With
\* max_daily_loss and max_weekly_loss not negative, daily_loss_halt and
\* weekly_loss_halt pass on every submission, with the kill switches on or off
\* and whatever was lost.
C37_LossHaltsAlwaysPass ==
    /\ \A k \in DOMAIN state.fills :
          state.fills[k].size > 0 /\ state.fills[k].price >= 1
    /\ portfolio_state(state, now).daily_pnl >= 0
    /\ portfolio_state(state, now).weekly_pnl >= 0
    /\ deployment.safety.hard_limits.max_daily_loss >= 0
    /\ deployment.safety.hard_limits.max_weekly_loss >= 0
    /\ IsSubmit =>
          /\ risk_ctx.checks[7].check_name = "daily_loss_halt"
          /\ risk_ctx.checks[7].passed /\ risk_ctx.checks[7].value >= 0
          /\ risk_ctx.checks[8].check_name = "weekly_loss_halt"
          /\ risk_ctx.checks[8].passed /\ risk_ctx.checks[8].value >= 0

\* a submission after a loss was realized the same day, with the weekly kill
\* switch on and a max_weekly_loss of 0
C37_Witness ==
    /\ IsSubmit /\ execution.path = "entry"
    /\ state.account_value < initial_state(deployment).account_value
    /\ deployment.safety.kill_switches.weekly_loss_halt
    /\ deployment.safety.hard_limits.max_weekly_loss = 0
    /\ risk_ctx.checks[8].passed
    /\ risk_ctx.checks[8].value > 0

\* C38: manual_halt stays false and can_trade stays true in the ledger from
\* startup on, whatever is requested and whatever kill_switches.manual_halt is
\* configured, so a submission's verdict is can_trade exactly when all its
\* checks passed.
C38_HaltFlagsNeverChange ==
    /\ ~state.manual_halt
    /\ state.can_trade
    /\ IsSubmit =>
          (risk_ctx.can_trade <=>
              \A k \in DOMAIN risk_ctx.checks : risk_ctx.checks[k].passed)

\* an order accepted by a gate configured with the manual kill switch on
C38_Witness ==
    /\ deployment.safety.kill_switches.manual_halt
    /\ IsSubmit
    /\ risk_ctx.can_trade
    /\ response.response_type = "Accepted"
    /\ nreq = 3

\* C39: in dry-run mode a SubmitOrder whose verdict is can_trade is answered
\* Accepted: the adapter is called with a positive size and a positive entry
\* price (the planned entry, or the cached market price, which stays at 1 or
\* above) and does not fail.
C39_DryRunApprovedIsAccepted ==
    deployment.dry_run =>
        /\ market_cache.price >= 1
        /\ IsSubmit /\ risk_ctx.can_trade =>
              /\ response.response_type = "Accepted"
              /\ execution.path \in {"entry", "exit"}
              /\ request.size > 0
              /\ adapter_calls.last[1].size > 0
              /\ adapter_calls.last[1].planned_entry > 0

\* a dry-run order without a planned entry, executed at the cached market price
C39_Witness ==
    /\ deployment.dry_run
    /\ IsSubmit
    /\ request.planned_entry <= 0
    /\ response.response_type = "Accepted"
    /\ adapter_calls.last[1].planned_entry = market_cache.price

====
